---- MODULE Spec2Model ----
(***************************************************************************)
(* Model of the Our Goal team-application bot: the application store       *)
(* (data_manager.py), the conversation engine, the notification/decision   *)
(* router and the live relay (handlers.py), wired as main.py registers     *)
(* them.                                                                   *)
(*                                                                         *)
(* Data representation                                                     *)
(*  - identifiers that the code formats and splits (team ids, callback     *)
(*    data) are sequences of atoms in which "_" is an atom of its own, so  *)
(*    that f-string formatting is concatenation and str.split("_") is a    *)
(*    real split;                                                          *)
(*  - a chat text is a record [chars, letters]: chars spells the text out  *)
(*    character by character when it is short (contact numbers), letters   *)
(*    is the number of characters of a text made of letters only;          *)
(*  - time is counted in hours;                                            *)
(*  - the conversation engine, the relay and the calls of the store's      *)
(*    interface take the writes of a save by their outcome (written); the  *)
(*    files themselves are followed where the store's persistence is       *)
(*    specified (DiskSpec, LoadSpec, RestartSpec) and by the store's       *)
(*    clear_applications.                                                  *)
(***************************************************************************)
EXTENDS Integers, Sequences, FiniteSets, TLC

VARIABLES
    now,                    \* datetime.now(), in hours
    applications,           \* DataManager.applications
    users,                  \* DataManager.users
    banned_users,           \* DataManager.banned_users
    files,                  \* applications.json and users.json, each with its .backup
    user_data,              \* context.user_data, per applicant
    conversations,          \* state of application_conversation, per applicant
    tasks,                  \* complete_application calls suspended at an await
    concurrent_updates,     \* whether the dispatcher runs handlers concurrently
    broadcasts,             \* state of broadcast_conversation, per (chat, user)
    admin_message_to_user,  \* handlers.admin_message_to_user
    active_conversations,   \* handlers.active_conversations
    channel,                \* messages the bot has posted in the admin group
    event,                  \* the update handled by the last step
    outbox                  \* the sends the last step attempted, in order

storeVars == <<applications, users, banned_users, files>>
formVars  == <<user_data, conversations, tasks>>
relayVars == <<admin_message_to_user, active_conversations, channel>>
vars == <<now, applications, users, banned_users, files, user_data, conversations,
          tasks, concurrent_updates, broadcasts, admin_message_to_user,
          active_conversations, channel, event, outbox>>

----------------------------------------------------------------------------
(* Bounds                                                                  *)

MaxNow == 24        \* the clock stops here
TickHours == 12     \* hours that pass in one clock step
MaxApps == 2        \* stored applications
MaxTasks == 2       \* completions in flight at once
MaxMsgs == 2        \* messages posted in the admin group

Applicants == {1, 2}
Reviewers == {7, 8}

----------------------------------------------------------------------------
(* config.py                                                               *)

ASKING_GENDER == 1
ASKING_REASON == 2
ASKING_EXPERIENCE == 3
ASKING_WHATSAPP == 4
ConversationEND == 0 - 1

COOLDOWN_HOURS == 24

team_exams == <<"team", "_", "exams">>
team_collections == <<"team", "_", "collections">>
team_support == <<"team", "_", "support">>

TEAMS == (team_exams :> "Exams team") @@ (team_collections :> "Collections team")
         @@ (team_support :> "Support team")

UNKNOWN_TEAM == "unknown"

\* TEAMS.get(team_id, "غير معروف")
TeamsGet(team_id) == IF team_id \in DOMAIN TEAMS THEN TEAMS[team_id] ELSE UNKNOWN_TEAM

----------------------------------------------------------------------------
(* Texts                                                                   *)

Digits == {"0", "1", "2", "3", "4", "5", "6", "7", "8", "9"}
Whitespace == {" "}

Letters(n) == [chars |-> <<>>, letters |-> n]
Chars(s) == [chars |-> s, letters |-> 0]

RECURSIVE LStrip(_)
LStrip(s) == IF s # <<>> /\ Head(s) \in Whitespace THEN LStrip(Tail(s)) ELSE s

RECURSIVE RStrip(_)
RStrip(s) == IF s # <<>> /\ s[Len(s)] \in Whitespace
             THEN RStrip(SubSeq(s, 1, Len(s) - 1)) ELSE s

\* str.strip()
Strip(txt) == [chars |-> RStrip(LStrip(txt.chars)), letters |-> txt.letters]

\* len(str)
TextLen(txt) == Len(txt.chars) + txt.letters

\* re.sub(r'[\s\-\(\)]', '', number)
CleanNumber(s) == SelectSeq(s, LAMBDA c : c \notin (Whitespace \cup {"-", "(", ")"}))

AllDigits(s, from, to) == \A i \in from..to : s[i] \in Digits

\* MatchEgyptian that takes any digit after the 1 of the prefix
MatchEgyptian_AnyPrefix(s) ==
    LET body == IF s # <<>> /\ Head(s) = "+" THEN Tail(s) ELSE s
    IN  \/ /\ Len(body) = 12
           /\ body[1] = "2" /\ body[2] = "0" /\ body[3] = "1"
           /\ AllDigits(body, 4, 12)
        \/ /\ Len(s) = 11
           /\ s[1] = "0" /\ s[2] = "1"
           /\ AllDigits(s, 3, 11)

\* ^(\+?20(1[0125]|10|11|12|15)[0-9]{8}|0(1[0125]|10|11|12|15)[0-9]{8})$
MatchEgyptian(s) ==
    LET body == IF s # <<>> /\ Head(s) = "+" THEN Tail(s) ELSE s
    IN  \/ /\ Len(body) = 12
           /\ body[1] = "2" /\ body[2] = "0" /\ body[3] = "1"
           /\ body[4] \in {"0", "1", "2", "5"}
           /\ AllDigits(body, 5, 12)
        \/ /\ Len(s) = 11
           /\ s[1] = "0" /\ s[2] = "1"
           /\ s[3] \in {"0", "1", "2", "5"}
           /\ AllDigits(s, 4, 11)

\* ^(\+?966(5[0-9])[0-9]{7}|0(5[0-9])[0-9]{7})$
MatchSaudi(s) ==
    LET body == IF s # <<>> /\ Head(s) = "+" THEN Tail(s) ELSE s
    IN  \/ /\ Len(body) = 12
           /\ body[1] = "9" /\ body[2] = "6" /\ body[3] = "6" /\ body[4] = "5"
           /\ AllDigits(body, 5, 12)
        \/ /\ Len(s) = 10
           /\ s[1] = "0" /\ s[2] = "5"
           /\ AllDigits(s, 3, 10)

\* a text of letters only never matches; a spelled-out text is cleaned and matched
validate_whatsapp_number(txt) ==
    /\ txt.letters = 0
    /\ LET clean_number == CleanNumber(txt.chars)
       IN  MatchEgyptian(clean_number) \/ MatchSaudi(clean_number)

PhoneEG == Chars(<<"0", "1", "0", "1", "2", "3", "4", "5", "6", "7", "8">>)
NoText == Letters(0)

----------------------------------------------------------------------------
(* data_manager.py                                                         *)

\* str(user_id) and int(text)
StrOfInt(n) == ToString(n)
IntOfStr(s) == CHOOSE n \in 0..9 : ToString(n) = s

\* has_user_applied that looks at the last stored application only
has_user_applied_LastOnly(user_id, team_id) ==
    /\ applications # <<>>
    /\ applications[Len(applications)].user_info.user_id = user_id
    /\ applications[Len(applications)].selected_team = team_id

has_user_applied(user_id, team_id) ==
    \E i \in DOMAIN applications :
        /\ applications[i].user_info.user_id = user_id
        /\ applications[i].selected_team = team_id

\* LatestApplication that keeps the first matching application
RECURSIVE LatestApplication_First(_, _, _, _)
LatestApplication_First(user_id, team_id, i, latest) ==
    IF i > Len(applications) THEN latest
    ELSE IF /\ applications[i].user_info.user_id = user_id
            /\ applications[i].selected_team = team_id
            /\ latest = 0
         THEN LatestApplication_First(user_id, team_id, i + 1, i)
         ELSE LatestApplication_First(user_id, team_id, i + 1, latest)

\* the loop of can_user_reapply: index of the latest matching application, 0 for None
RECURSIVE LatestApplication(_, _, _, _)
LatestApplication(user_id, team_id, i, latest) ==
    IF i > Len(applications) THEN latest
    ELSE IF /\ applications[i].user_info.user_id = user_id
            /\ applications[i].selected_team = team_id
            /\ (latest = 0 \/ applications[i].timestamp > applications[latest].timestamp)
         THEN LatestApplication(user_id, team_id, i + 1, i)
         ELSE LatestApplication(user_id, team_id, i + 1, latest)

\* can_user_reapply that lets the applicant back only after the cooldown's end
can_user_reapply_Strict(user_id, team_id) ==
    IF ~has_user_applied(user_id, team_id) THEN TRUE
    ELSE LET latest == LatestApplication(user_id, team_id, 1, 0)
         IN  IF latest = 0 THEN TRUE
             ELSE now > applications[latest].timestamp + COOLDOWN_HOURS

can_user_reapply(user_id, team_id) ==
    IF ~has_user_applied(user_id, team_id) THEN TRUE
    ELSE LET latest == LatestApplication(user_id, team_id, 1, 0)
         IN  IF latest = 0 THEN TRUE
             ELSE now >= applications[latest].timestamp + COOLDOWN_HOURS

is_user_banned(user_id) ==
    \E i \in DOMAIN banned_users : banned_users[i] = StrOfInt(user_id)

RequiredFields == {"user_info", "selected_team", "team_name", "reason",
                   "experience", "timestamp"}

\* _validate_application on the keys the record carries
validate_application(keys) == RequiredFields \subseteq keys

\* f"{user_id}_{selected_team}_{int(datetime.now().timestamp())}"
ApplicationId(app) ==
    <<StrOfInt(app.user_info.user_id), "_">> \o app.selected_team
        \o <<"_", StrOfInt(now)>>

NewUser(app) ==
    [first_name |-> "", username |-> app.user_info.username,
     first_seen |-> app.timestamp,
     applications |-> <<>>, total_applications |-> 0,
     last_active |-> app.timestamp]

Summary(app) ==
    [id |-> app.id, team_id |-> app.selected_team, team_name |-> app.team_name,
     timestamp |-> app.timestamp]

\* UsersAfterSave that starts the applicant's list of summaries afresh
UsersAfterSave_Replace(app) ==
    LET key == StrOfInt(app.user_info.user_id)
        old == IF key \in DOMAIN users THEN users[key] ELSE NewUser(app)
        lst == <<Summary(app)>>
        rec == [old EXCEPT !.applications = lst,
                           !.total_applications = Len(lst),
                           !.last_active = app.timestamp]
    IN  [k \in DOMAIN users \cup {key} |-> IF k = key THEN rec ELSE users[k]]

\* the in-memory effect of save_application on self.users
UsersAfterSave(app) ==
    LET key == StrOfInt(app.user_info.user_id)
        old == IF key \in DOMAIN users THEN users[key] ELSE NewUser(app)
        lst == Append(old.applications, Summary(app))
        rec == [old EXCEPT !.applications = lst,
                           !.total_applications = Len(lst),
                           !.last_active = app.timestamp]
    IN  [k \in DOMAIN users \cup {key} |-> IF k = key THEN rec ELSE users[k]]

\* the in-memory effect of save_application(application_data)
save_application(app_data) ==
    IF ~validate_application(app_data.keys)
    THEN UNCHANGED <<applications, users>>
    ELSE LET app == [app_data EXCEPT !.id = ApplicationId(app_data),
                                     !.keys = @ \cup {"id"}]
         IN  /\ applications' = Append(applications, app)
             /\ users' = UsersAfterSave(app)

\* what save_application returns; written tells whether both _save_json
\* calls returned True
save_application_result(app_data, written) ==
    validate_application(app_data.keys) /\ written

ban_user(user_id) ==
    /\ ~is_user_banned(user_id)
    /\ banned_users' = Append(banned_users, StrOfInt(user_id))

\* list.remove takes out the first occurrence
unban_user(user_id) ==
    /\ is_user_banned(user_id)
    /\ LET first == CHOOSE i \in DOMAIN banned_users :
                        /\ banned_users[i] = StrOfInt(user_id)
                        /\ \A j \in 1..(i - 1) : banned_users[j] # StrOfInt(user_id)
       IN  banned_users' = SubSeq(banned_users, 1, first - 1)
                            \o SubSeq(banned_users, first + 1, Len(banned_users))

\* delete_application that removes the first record of that id only
delete_application_FirstOnly(application_id) ==
    LET first == CHOOSE i \in DOMAIN applications :
                     /\ applications[i].id = application_id
                     /\ \A j \in 1..(i - 1) : applications[j].id # application_id
    IN  IF \A i \in DOMAIN applications : applications[i].id # application_id
        THEN UNCHANGED <<applications, users>>
        ELSE /\ applications' = SubSeq(applications, 1, first - 1)
                                 \o SubSeq(applications, first + 1, Len(applications))
             /\ users' = [k \in DOMAIN users |->
                    LET lst == SelectSeq(users[k].applications,
                                         LAMBDA sm : sm.id # application_id)
                    IN  [users[k] EXCEPT !.applications = lst,
                                         !.total_applications = Len(lst)]]

\* delete_application that leaves total_applications as it was
delete_application_StaleTotal(application_id) ==
    LET kept == SelectSeq(applications, LAMBDA app : app.id # application_id)
    IN  IF Len(kept) = Len(applications)
        THEN UNCHANGED <<applications, users>>
        ELSE /\ applications' = kept
             /\ users' = [k \in DOMAIN users |->
                    [users[k] EXCEPT !.applications =
                        SelectSeq(@, LAMBDA sm : sm.id # application_id)]]

\* the in-memory effect of delete_application(application_id)
delete_application(application_id) ==
    LET kept == SelectSeq(applications, LAMBDA app : app.id # application_id)
    IN  IF Len(kept) = Len(applications)
        THEN UNCHANGED <<applications, users>>
        ELSE /\ applications' = kept
             /\ users' = [k \in DOMAIN users |->
                    LET lst == SelectSeq(users[k].applications,
                                         LAMBDA sm : sm.id # application_id)
                    IN  [users[k] EXCEPT !.applications = lst,
                                         !.total_applications = Len(lst)]]

\* delete_application_result that reports the writes only
delete_application_result_Written(application_id, written) == written

\* what delete_application returns; written as for save_application
delete_application_result(application_id, written) ==
    /\ \E i \in DOMAIN applications : applications[i].id = application_id
    /\ written

\* TeamCounts that marks a team instead of counting its applications
RECURSIVE TeamCounts_Marks(_, _)
TeamCounts_Marks(i, team_counts) ==
    IF i > Len(applications) THEN team_counts
    ELSE TeamCounts_Marks(i + 1,
             [t \in DOMAIN team_counts \cup {applications[i].selected_team} |-> 1])

\* the loop of get_statistics over self.applications[i..]:
\* team_counts[team_id] = team_counts.get(team_id, 0) + 1
RECURSIVE TeamCounts(_, _)
TeamCounts(i, team_counts) ==
    IF i > Len(applications) THEN team_counts
    ELSE LET team_id == applications[i].selected_team
             count == IF team_id \in DOMAIN team_counts
                      THEN team_counts[team_id] ELSE 0
         IN  TeamCounts(i + 1,
                 [t \in DOMAIN team_counts \cup {team_id} |->
                     IF t = team_id THEN count + 1 ELSE team_counts[t]])

get_statistics ==
    [total_applications |-> Len(applications),
     total_users |-> Cardinality({applications[i].user_info.user_id :
                                      i \in DOMAIN applications}),
     recent_applications |-> Cardinality({i \in DOMAIN applications :
                                 applications[i].timestamp >= now - 7 * 24}),
     team_counts |-> TeamCounts(1, <<>>),
     active_users |-> Cardinality({k \in DOMAIN users :
                          users[k].last_active >= now - 30 * 24})]

----------------------------------------------------------------------------
(* data_manager.py: the JSON files                                         *)

APPLICATIONS_FILE == "applications.json"
USERS_FILE == "users.json"

\* a path on disk: no file, a file holding a whole JSON document, or a file
\* holding the beginning of one
Absent == [state |-> "absent", data |-> <<>>]
Complete(data) == [state |-> "complete", data |-> data]
Partial == [state |-> "partial", data |-> <<>>]

\* how open(filename, 'w') and json.dump end: the document is written, open
\* raises, or json.dump raises after it wrote part of the document
WriteOutcomes == {"ok", "open_fails", "dump_fails"}

\* os.rename(filename, backup_name) when the file exists
BackedUp(file) ==
    IF file.primary.state # "absent"
    THEN [primary |-> Absent, backup |-> file.primary]
    ELSE file

\* the except block: os.rename(backup_name, filename) when the backup exists
Restored(file) ==
    IF file.backup.state # "absent"
    THEN [primary |-> file.backup, backup |-> Absent]
    ELSE file

\* the file after _save_json(filename, data)
save_json(file, data, outcome) ==
    IF outcome = "ok" THEN [BackedUp(file) EXCEPT !.primary = Complete(data)]
    ELSE IF outcome = "open_fails" THEN Restored(BackedUp(file))
    ELSE Restored([BackedUp(file) EXCEPT !.primary = Partial])

\* what _save_json returns
save_json_result(outcome) == outcome = "ok"

\* success = _save_json(APPLICATIONS_FILE, self.applications) and
\*           _save_json(USERS_FILE, self.users)
\* on the collections as the call left them; the second write is not tried
\* when the first returned False
SaveBoth(out1, out2) ==
    files' = [files EXCEPT
                 ![APPLICATIONS_FILE] = save_json(@, applications', out1),
                 ![USERS_FILE] = IF save_json_result(out1)
                                 THEN save_json(@, users', out2) ELSE @]

\* SaveBothResult that reports the first write only
SaveBothResult_FirstOnly(out1, out2) == save_json_result(out1)

SaveBothResult(out1, out2) == save_json_result(out1) /\ save_json_result(out2)

----------------------------------------------------------------------------
(* The transport: what a handler sends and how the sends end               *)

ADMIN_GROUP_ID == 0

\* "ok": every send of the handler succeeds; "error": its first send raises
\* and the error notice of its except block is delivered; "down": every send
\* raises, so the exception leaves the handler
Net == {"ok", "error", "down"}

Msg(to, text, ok) == [to |-> to, text |-> text, team_name |-> "", ok |-> ok]
TeamMsg(to, text, team_name, ok) ==
    [to |-> to, text |-> text, team_name |-> team_name, ok |-> ok]

\* try: await send(text) / except: await send(ERROR_MESSAGE)
Sends(to, text, net) ==
    IF net = "ok" THEN <<Msg(to, text, TRUE)>>
    ELSE <<Msg(to, text, FALSE), Msg(to, "ERROR_MESSAGE", net = "error")>>

\* the state ConversationHandler records: the handler's return value, END from
\* the except block, and no change when the handler raised
NextState(current, returned, net) ==
    IF net = "ok" THEN returned
    ELSE IF net = "error" THEN ConversationEND
    ELSE current

IsActive(u) == u \in DOMAIN active_conversations /\ active_conversations[u].active

Tracked(m) == m \in DOMAIN admin_message_to_user

\* admin_message_to_user[message_id] = user_id
MapPut(message_id, user_id) ==
    [m \in DOMAIN admin_message_to_user \cup {message_id} |->
        IF m = message_id THEN user_id ELSE admin_message_to_user[m]]

Event(handler, user, arg) == [handler |-> handler, user |-> user, arg |-> arg]

\* an update is dispatched when no handler is suspended, or always when the
\* application processes updates concurrently
Dispatchable == concurrent_updates \/ tasks = <<>>

----------------------------------------------------------------------------
(* handlers.py: the conversation engine                                    *)

\* first_name, last_name and timestamp of user_info are stored and never read
NoUserInfo == [user_id |-> 0, username |-> ""]

EmptyUserData ==
    [keys |-> {}, selected_team |-> <<>>, team_name |-> "",
     user_info |-> NoUserInfo, gender |-> "", reason |-> NoText,
     experience |-> NoText, whatsapp_number |-> NoText]

team_selection_callback(u, team_id, username, net) ==
    /\ Dispatchable
    /\ LET team_name == TeamsGet(team_id)
       IN  IF has_user_applied(u, team_id) /\ ~can_user_reapply(u, team_id)
           THEN /\ outbox' = Sends(u, "ALREADY_APPLIED", net)
                /\ conversations' = [conversations EXCEPT
                       ![u] = NextState(@, ConversationEND, net)]
                /\ UNCHANGED user_data
           ELSE /\ user_data' = [user_data EXCEPT ![u] =
                       [@ EXCEPT !.keys = @ \cup {"selected_team", "team_name", "user_info"},
                                 !.selected_team = team_id,
                                 !.team_name = team_name,
                                 !.user_info = [user_id |-> u, username |-> username]]]
                /\ outbox' = Sends(u, "TEAM_SELECTION_MESSAGE", net)
                /\ conversations' = [conversations EXCEPT
                       ![u] = NextState(@, ASKING_GENDER, net)]
    /\ event' = Event("team_selection_callback", u, team_id)
    /\ UNCHANGED <<now, storeVars, tasks, concurrent_updates, broadcasts, relayVars>>

handle_gender_selection(u, gender, net) ==
    /\ Dispatchable
    /\ conversations[u] = ASKING_GENDER
    /\ user_data' = [user_data EXCEPT ![u] =
           [@ EXCEPT !.keys = @ \cup {"gender"}, !.gender = gender]]
    /\ outbox' = Sends(u, "GENDER_QUESTION", net)
    /\ conversations' = [conversations EXCEPT ![u] = NextState(@, ASKING_REASON, net)]
    /\ event' = Event("handle_gender_selection", u, gender)
    /\ UNCHANGED <<now, storeVars, tasks, concurrent_updates, broadcasts, relayVars>>

\* handle_reason_input with the lower bound off by one
handle_reason_input_Min11(u, text, net) ==
    /\ Dispatchable
    /\ conversations[u] = ASKING_REASON
    /\ LET user_reason == Strip(text)
       IN  IF TextLen(user_reason) < 11
           THEN /\ outbox' = Sends(u, "REASON_TOO_SHORT", net)
                /\ conversations' = [conversations EXCEPT
                       ![u] = NextState(@, ASKING_REASON, net)]
                /\ UNCHANGED user_data
           ELSE IF TextLen(user_reason) > 1000
           THEN /\ outbox' = Sends(u, "ANSWER_TOO_LONG", net)
                /\ conversations' = [conversations EXCEPT
                       ![u] = NextState(@, ASKING_REASON, net)]
                /\ UNCHANGED user_data
           ELSE /\ user_data' = [user_data EXCEPT ![u] =
                       [@ EXCEPT !.keys = @ \cup {"reason"}, !.reason = user_reason]]
                /\ outbox' = Sends(u, "EXPERIENCE_QUESTION", net)
                /\ conversations' = [conversations EXCEPT
                       ![u] = NextState(@, ASKING_EXPERIENCE, net)]
    /\ event' = Event("handle_reason_input", u, text)
    /\ UNCHANGED <<now, storeVars, tasks, concurrent_updates, broadcasts, relayVars>>

handle_reason_input(u, text, net) ==
    /\ Dispatchable
    /\ conversations[u] = ASKING_REASON
    /\ LET user_reason == Strip(text)
       IN  IF TextLen(user_reason) < 10
           THEN /\ outbox' = Sends(u, "REASON_TOO_SHORT", net)
                /\ conversations' = [conversations EXCEPT
                       ![u] = NextState(@, ASKING_REASON, net)]
                /\ UNCHANGED user_data
           ELSE IF TextLen(user_reason) > 1000
           THEN /\ outbox' = Sends(u, "ANSWER_TOO_LONG", net)
                /\ conversations' = [conversations EXCEPT
                       ![u] = NextState(@, ASKING_REASON, net)]
                /\ UNCHANGED user_data
           ELSE /\ user_data' = [user_data EXCEPT ![u] =
                       [@ EXCEPT !.keys = @ \cup {"reason"}, !.reason = user_reason]]
                /\ outbox' = Sends(u, "EXPERIENCE_QUESTION", net)
                /\ conversations' = [conversations EXCEPT
                       ![u] = NextState(@, ASKING_EXPERIENCE, net)]
    /\ event' = Event("handle_reason_input", u, text)
    /\ UNCHANGED <<now, storeVars, tasks, concurrent_updates, broadcasts, relayVars>>

\* the synchronous head of complete_application, up to its first await: the
\* application is assembled from the session data ud and saved.  A missing
\* session key raises KeyError, which the except block answers.
BuildKeys == {"user_info", "selected_team", "team_name", "gender", "reason", "experience"}

ApplicationData(ud) ==
    [keys |-> BuildKeys \cup {"whatsapp_number", "timestamp"},
     id |-> <<>>,
     user_info |-> ud.user_info,
     selected_team |-> ud.selected_team,
     team_name |-> ud.team_name,
     gender |-> ud.gender,
     reason |-> ud.reason,
     experience |-> ud.experience,
     whatsapp_number |-> IF "whatsapp_number" \in ud.keys
                         THEN ud.whatsapp_number ELSE NoText,
     timestamp |-> now]

complete_application(u, ud, written) ==
    /\ Len(tasks) < MaxTasks
    /\ user_data' = [user_data EXCEPT ![u] = ud]
    /\ IF ~(BuildKeys \subseteq ud.keys)
       THEN /\ tasks' = Append(tasks, [user |-> u, pc |-> "except", saved |-> FALSE,
                                       app |-> ApplicationData(ud)])
            /\ UNCHANGED <<applications, users>>
       ELSE LET application_data == ApplicationData(ud)
                saved == save_application_result(application_data, written)
            IN  /\ Len(applications) < MaxApps
                /\ save_application(application_data)
                /\ tasks' = Append(tasks,
                       [user |-> u, pc |-> IF saved THEN "notify" ELSE "failed",
                        saved |-> saved, app |-> application_data])
    /\ outbox' = <<>>
    /\ UNCHANGED <<now, banned_users, files, conversations, concurrent_updates, broadcasts, relayVars>>

\* handle_experience_input that asks every applicant for a contact number
handle_experience_input_AlwaysAsks(u, text, username, net, written) ==
    /\ Dispatchable
    /\ conversations[u] = ASKING_EXPERIENCE
    /\ event' = Event("handle_experience_input", u, [text |-> text, username |-> username])
    /\ LET user_experience == Strip(text)
           stored == [user_data[u] EXCEPT !.keys = @ \cup {"experience"},
                                          !.experience = user_experience]
       IN  IF TextLen(user_experience) < 5 \/ TextLen(user_experience) > 1000
           THEN /\ outbox' = Sends(u, IF TextLen(user_experience) < 5
                                      THEN "EXPERIENCE_TOO_SHORT"
                                      ELSE "ANSWER_TOO_LONG", net)
                /\ conversations' = [conversations EXCEPT
                       ![u] = NextState(@, ASKING_EXPERIENCE, net)]
                /\ UNCHANGED <<now, storeVars, user_data, tasks,
                               concurrent_updates, broadcasts, relayVars>>
           ELSE IF TRUE
           THEN /\ user_data' = [user_data EXCEPT ![u] = stored]
                /\ outbox' = Sends(u, "WHATSAPP_QUESTION", net)
                /\ conversations' = [conversations EXCEPT
                       ![u] = NextState(@, ASKING_WHATSAPP, net)]
                /\ UNCHANGED <<now, storeVars, tasks, concurrent_updates, broadcasts, relayVars>>
           ELSE complete_application(u, stored, written)

handle_experience_input(u, text, username, net, written) ==
    /\ Dispatchable
    /\ conversations[u] = ASKING_EXPERIENCE
    /\ event' = Event("handle_experience_input", u, [text |-> text, username |-> username])
    /\ LET user_experience == Strip(text)
           stored == [user_data[u] EXCEPT !.keys = @ \cup {"experience"},
                                          !.experience = user_experience]
       IN  IF TextLen(user_experience) < 5 \/ TextLen(user_experience) > 1000
           THEN /\ outbox' = Sends(u, IF TextLen(user_experience) < 5
                                      THEN "EXPERIENCE_TOO_SHORT"
                                      ELSE "ANSWER_TOO_LONG", net)
                /\ conversations' = [conversations EXCEPT
                       ![u] = NextState(@, ASKING_EXPERIENCE, net)]
                /\ UNCHANGED <<now, storeVars, user_data, tasks,
                               concurrent_updates, broadcasts, relayVars>>
           ELSE IF username = ""
           THEN /\ user_data' = [user_data EXCEPT ![u] = stored]
                /\ outbox' = Sends(u, "WHATSAPP_QUESTION", net)
                /\ conversations' = [conversations EXCEPT
                       ![u] = NextState(@, ASKING_WHATSAPP, net)]
                /\ UNCHANGED <<now, storeVars, tasks, concurrent_updates, broadcasts, relayVars>>
           ELSE complete_application(u, stored, written)

\* handle_whatsapp_input that stores the number before it validates it
handle_whatsapp_input_StoresFirst(u, text, net, written) ==
    /\ Dispatchable
    /\ conversations[u] = ASKING_WHATSAPP
    /\ event' = Event("handle_whatsapp_input", u, text)
    /\ LET whatsapp_number == Strip(text)
           stored == [user_data[u] EXCEPT !.keys = @ \cup {"whatsapp_number"},
                                          !.whatsapp_number = whatsapp_number]
       IN  IF ~validate_whatsapp_number(whatsapp_number)
           THEN /\ outbox' = Sends(u, "WHATSAPP_INVALID", net)
                /\ conversations' = [conversations EXCEPT
                       ![u] = NextState(@, ASKING_WHATSAPP, net)]
                /\ user_data' = [user_data EXCEPT ![u] = stored]
                /\ UNCHANGED <<now, storeVars, tasks,
                               concurrent_updates, broadcasts, relayVars>>
           ELSE complete_application(u, stored, written)

handle_whatsapp_input(u, text, net, written) ==
    /\ Dispatchable
    /\ conversations[u] = ASKING_WHATSAPP
    /\ event' = Event("handle_whatsapp_input", u, text)
    /\ LET whatsapp_number == Strip(text)
           stored == [user_data[u] EXCEPT !.keys = @ \cup {"whatsapp_number"},
                                          !.whatsapp_number = whatsapp_number]
       IN  IF ~validate_whatsapp_number(whatsapp_number)
           THEN /\ outbox' = Sends(u, "WHATSAPP_INVALID", net)
                /\ conversations' = [conversations EXCEPT
                       ![u] = NextState(@, ASKING_WHATSAPP, net)]
                /\ UNCHANGED <<now, storeVars, user_data, tasks,
                               concurrent_updates, broadcasts, relayVars>>
           ELSE complete_application(u, stored, written)

\* handlers.py:430-437: the two buttons of a notification
CallbackData(decision, user_id, team_id) ==
    <<decision, "_", StrOfInt(user_id), "_">> \o team_id

\* send_admin_notification that records the mapping before it knows the send
\* went through
send_admin_notification_MapsUnsent(i, sent) ==
    /\ i \in DOMAIN tasks
    /\ tasks[i].pc = "notify"
    /\ Len(channel) < MaxMsgs
    /\ LET app == tasks[i].app
           user_id == app.user_info.user_id
           message_id == Len(channel) + 1
       IN  /\ IF sent
              THEN /\ channel' = Append(channel,
                          [kind |-> "notification", user |-> user_id,
                           team_name |-> app.team_name,
                           accept |-> CallbackData("accept", user_id, app.selected_team),
                           reject |-> CallbackData("reject", user_id, app.selected_team),
                           buttons |-> TRUE, audit |-> <<>>])
                   /\ admin_message_to_user' = MapPut(message_id, user_id)
              ELSE /\ admin_message_to_user' = MapPut(message_id, user_id)
                   /\ UNCHANGED channel
           /\ event' = Event("send_admin_notification", tasks[i].user, app.selected_team)
    /\ tasks' = [tasks EXCEPT ![i].pc = "confirm"]
    /\ outbox' = <<Msg(ADMIN_GROUP_ID, "NOTIFICATION", sent)>>
    /\ UNCHANGED <<now, storeVars, user_data, conversations, concurrent_updates, broadcasts,
                   active_conversations>>

\* complete_application resumed at "await send_admin_notification": the send
\* to the admin group succeeds or raises; the exception is caught inside
send_admin_notification(i, sent) ==
    /\ i \in DOMAIN tasks
    /\ tasks[i].pc = "notify"
    /\ Len(channel) < MaxMsgs
    /\ LET app == tasks[i].app
           user_id == app.user_info.user_id
           message_id == Len(channel) + 1
       IN  /\ IF sent
              THEN /\ channel' = Append(channel,
                          [kind |-> "notification", user |-> user_id,
                           team_name |-> app.team_name,
                           accept |-> CallbackData("accept", user_id, app.selected_team),
                           reject |-> CallbackData("reject", user_id, app.selected_team),
                           buttons |-> TRUE, audit |-> <<>>])
                   /\ admin_message_to_user' = MapPut(message_id, user_id)
              ELSE UNCHANGED <<channel, admin_message_to_user>>
           /\ event' = Event("send_admin_notification", tasks[i].user, app.selected_team)
    /\ tasks' = [tasks EXCEPT ![i].pc = "confirm"]
    /\ outbox' = <<Msg(ADMIN_GROUP_ID, "NOTIFICATION", sent)>>
    /\ UNCHANGED <<now, storeVars, user_data, conversations, concurrent_updates, broadcasts,
                   active_conversations>>

RemoveAt(seq, i) == SubSeq(seq, 1, i - 1) \o SubSeq(seq, i + 1, Len(seq))

\* complete_application resumed at its last reply: the confirmation, the
\* save-failure notice or the error notice of the except block; then
\* context.user_data.clear() and return ConversationHandler.END
complete_application_reply(i, net) ==
    /\ i \in DOMAIN tasks
    /\ tasks[i].pc \in {"confirm", "failed", "except"}
    /\ LET u == tasks[i].user
           raised == \/ tasks[i].pc = "except"
                     \/ tasks[i].pc = "confirm" /\ "team_name" \notin user_data[u].keys
           text == IF tasks[i].pc = "confirm" THEN "APPLICATION_SUBMITTED"
                   ELSE "SAVE_FAILED"
       IN  /\ IF raised
              THEN /\ outbox' = <<Msg(u, "ERROR_MESSAGE", net # "down")>>
                   /\ conversations' = [conversations EXCEPT ![u] =
                          IF net # "down" THEN ConversationEND ELSE @]
                   /\ UNCHANGED user_data
              ELSE /\ outbox' = Sends(u, text, net)
                   /\ conversations' = [conversations EXCEPT
                          ![u] = NextState(@, ConversationEND, net)]
                   /\ user_data' = [user_data EXCEPT ![u] =
                          IF net = "ok" THEN EmptyUserData ELSE @]
           /\ event' = Event("complete_application", u, tasks[i].pc)
    /\ tasks' = RemoveAt(tasks, i)
    /\ UNCHANGED <<now, storeVars, concurrent_updates, broadcasts, relayVars>>

\* cancel_command that clears one session store shared by every applicant
cancel_command_ClearsAll(u, net) ==
    /\ Dispatchable
    /\ user_data' = [v \in DOMAIN user_data |-> EmptyUserData]
    /\ outbox' = Sends(u, "CANCEL_MESSAGE", net)
    /\ event' = Event("cancel_command", u, <<>>)
    /\ UNCHANGED <<now, storeVars, conversations, tasks, concurrent_updates, broadcasts, relayVars>>

\* /cancel reaches the CommandHandler registered first (main.py:187), whose
\* return value is not a conversation state
cancel_command(u, net) ==
    /\ Dispatchable
    /\ user_data' = [user_data EXCEPT ![u] = EmptyUserData]
    /\ outbox' = Sends(u, "CANCEL_MESSAGE", net)
    /\ event' = Event("cancel_command", u, <<>>)
    /\ UNCHANGED <<now, storeVars, conversations, tasks, concurrent_updates, broadcasts, relayVars>>

BanUser(u) ==
    /\ Dispatchable
    /\ ban_user(u)
    /\ event' = Event("ban_user", u, <<>>)
    /\ outbox' = <<>>
    /\ UNCHANGED <<now, applications, users, files, formVars, concurrent_updates, broadcasts, relayVars>>

UnbanUser(u) ==
    /\ Dispatchable
    /\ unban_user(u)
    /\ event' = Event("unban_user", u, <<>>)
    /\ outbox' = <<>>
    /\ UNCHANGED <<now, applications, users, files, formVars, concurrent_updates, broadcasts, relayVars>>

\* time passes
Tick ==
    /\ now + TickHours <= MaxNow
    /\ now' = now + TickHours
    /\ event' = Event("clock", 0, <<>>)
    /\ outbox' = <<>>
    /\ UNCHANGED <<storeVars, formVars, concurrent_updates, broadcasts, relayVars>>

----------------------------------------------------------------------------
(* handlers.py: the live relay and the decision router                     *)

\* try: await send(to, text); await reply(ack) / except: await reply(nack)
RelaySends(to, text, ackTo, ack, nack, net) ==
    IF net = "ok" THEN <<Msg(to, text, TRUE), Msg(ackTo, ack, TRUE)>>
    ELSE <<Msg(to, text, FALSE), Msg(ackTo, nack, net = "error")>>

\* handle_admin_reply that answers the applicant of the latest tracked message
handle_admin_reply_LatestApplicant(r, m, net) ==
    /\ Dispatchable
    /\ m \in 0..Len(channel)
    /\ event' = Event("handle_admin_reply", r, m)
    /\ IF ~Tracked(m)
       THEN /\ outbox' = <<>>
            /\ UNCHANGED active_conversations
       ELSE LET latest == CHOOSE k \in DOMAIN admin_message_to_user :
                              \A j \in DOMAIN admin_message_to_user : j <= k
                user_id == admin_message_to_user[latest]
            IN  /\ active_conversations' =
                       [u \in DOMAIN active_conversations \cup {user_id} |->
                           IF u = user_id THEN [admin_id |-> r, active |-> TRUE]
                           ELSE active_conversations[u]]
                /\ outbox' = RelaySends(user_id, "ADMIN_REPLY", ADMIN_GROUP_ID,
                                        "REPLY_SENT", "REPLY_FAILED", net)
    /\ UNCHANGED <<now, storeVars, formVars, concurrent_updates, broadcasts,
                   admin_message_to_user, channel>>

\* a reviewer's text in the admin group, replying to message m (0: to no
\* message the bot posted)
handle_admin_reply(r, m, net) ==
    /\ Dispatchable
    /\ m \in 0..Len(channel)
    /\ event' = Event("handle_admin_reply", r, m)
    /\ IF ~Tracked(m)
       THEN /\ outbox' = <<>>
            /\ UNCHANGED active_conversations
       ELSE LET user_id == admin_message_to_user[m]
            IN  /\ active_conversations' =
                       [u \in DOMAIN active_conversations \cup {user_id} |->
                           IF u = user_id THEN [admin_id |-> r, active |-> TRUE]
                           ELSE active_conversations[u]]
                /\ outbox' = RelaySends(user_id, "ADMIN_REPLY", ADMIN_GROUP_ID,
                                        "REPLY_SENT", "REPLY_FAILED", net)
    /\ UNCHANGED <<now, storeVars, formVars, concurrent_updates, broadcasts,
                   admin_message_to_user, channel>>

\* the body shared by handle_admin_photo, handle_admin_video and
\* handle_admin_audio; saved tells whether save_media_file returned a path
AdminMedia(handler, media, r, m, saved, net) ==
    /\ Dispatchable
    /\ m \in 0..Len(channel)
    /\ event' = Event(handler, r, m)
    /\ IF ~Tracked(m) THEN outbox' = <<>>
       ELSE IF ~saved THEN outbox' = <<Msg(ADMIN_GROUP_ID, "MEDIA_SAVE_FAILED", TRUE)>>
       ELSE outbox' = RelaySends(admin_message_to_user[m], media, ADMIN_GROUP_ID,
                                 "MEDIA_SENT", "MEDIA_FAILED", net)
    /\ UNCHANGED <<now, storeVars, formVars, concurrent_updates, broadcasts, relayVars>>

handle_admin_photo(r, m, saved, net) ==
    AdminMedia("handle_admin_photo", "ADMIN_PHOTO", r, m, saved, net)

handle_admin_video(r, m, saved, net) ==
    AdminMedia("handle_admin_video", "ADMIN_VIDEO", r, m, saved, net)

handle_admin_audio(r, m, voice, saved, net) ==
    AdminMedia("handle_admin_audio", IF voice THEN "ADMIN_VOICE" ELSE "ADMIN_AUDIO",
               r, m, saved, net)

\* Forward that posts the message and forgets to map its id
Forward_Unmapped(u, media, ack, nack, net) ==
    /\ Len(channel) < MaxMsgs
    /\ IF net = "ok"
       THEN /\ channel' = Append(channel,
                   [kind |-> "relay", user |-> u, team_name |-> "",
                    accept |-> <<>>, reject |-> <<>>,
                    buttons |-> FALSE, audit |-> <<>>])
            /\ UNCHANGED admin_message_to_user
       ELSE UNCHANGED <<channel, admin_message_to_user>>
    /\ outbox' = RelaySends(ADMIN_GROUP_ID, media, u, ack, nack, net)

\* forwarding to the admin group: the send, the mapping of the sent message
\* and the confirmation to the applicant
Forward(u, media, ack, nack, net) ==
    /\ Len(channel) < MaxMsgs
    /\ IF net = "ok"
       THEN /\ channel' = Append(channel,
                   [kind |-> "relay", user |-> u, team_name |-> "",
                    accept |-> <<>>, reject |-> <<>>,
                    buttons |-> FALSE, audit |-> <<>>])
            /\ admin_message_to_user' = MapPut(Len(channel) + 1, u)
       ELSE UNCHANGED <<channel, admin_message_to_user>>
    /\ outbox' = RelaySends(ADMIN_GROUP_ID, media, u, ack, nack, net)

handle_user_reply(u, net) ==
    IF ~IsActive(u)
    THEN /\ outbox' = <<>>
         /\ UNCHANGED <<channel, admin_message_to_user>>
    ELSE Forward(u, "USER_REPLY", "MESSAGE_SENT", "MESSAGE_FAILED", net)

\* a text of the applicant that application_conversation does not take: the
\* conversation has no text handler in the applicant's state
handle_unknown_message(u, net) ==
    /\ Dispatchable
    /\ conversations[u] \notin {ASKING_REASON, ASKING_EXPERIENCE, ASKING_WHATSAPP}
    /\ event' = Event("handle_unknown_message", u, 0)
    /\ IF IsActive(u)
       THEN handle_user_reply(u, net)
       ELSE /\ outbox' = Sends(u, "UNKNOWN_MESSAGE", net)
            /\ UNCHANGED <<channel, admin_message_to_user>>
    /\ UNCHANGED <<now, storeVars, formVars, concurrent_updates, broadcasts, active_conversations>>

\* UserMedia without the check of the relay session
UserMedia_Unguarded(handler, media, u, saved, net) ==
    /\ Dispatchable
    /\ event' = Event(handler, u, saved)
    /\ IF ~saved
       THEN /\ outbox' = <<Msg(u, "MEDIA_FAILED", TRUE)>>
            /\ UNCHANGED <<channel, admin_message_to_user>>
       ELSE Forward(u, media, "MEDIA_SENT", "MEDIA_FAILED", net)
    /\ UNCHANGED <<now, storeVars, formVars, concurrent_updates, broadcasts, active_conversations>>

\* the body shared by handle_user_photo, handle_user_video and handle_user_audio
UserMedia(handler, media, u, saved, net) ==
    /\ Dispatchable
    /\ event' = Event(handler, u, saved)
    /\ IF ~IsActive(u)
       THEN /\ outbox' = <<>>
            /\ UNCHANGED <<channel, admin_message_to_user>>
       ELSE IF ~saved
       THEN /\ outbox' = <<Msg(u, "MEDIA_FAILED", TRUE)>>
            /\ UNCHANGED <<channel, admin_message_to_user>>
       ELSE Forward(u, media, "MEDIA_SENT", "MEDIA_FAILED", net)
    /\ UNCHANGED <<now, storeVars, formVars, concurrent_updates, broadcasts, active_conversations>>

handle_user_photo(u, saved, net) ==
    UserMedia("handle_user_photo", "USER_PHOTO", u, saved, net)

handle_user_video(u, saved, net) ==
    UserMedia("handle_user_video", "USER_VIDEO", u, saved, net)

handle_user_audio(u, voice, saved, net) ==
    UserMedia("handle_user_audio", IF voice THEN "USER_VOICE" ELSE "USER_AUDIO",
              u, saved, net)

\* str.split("_") on a sequence of atoms
RECURSIVE Split(_)
Split(s) ==
    IF \A i \in DOMAIN s : s[i] # "_" THEN <<s>>
    ELSE LET k == CHOOSE i \in DOMAIN s :
                      s[i] = "_" /\ \A j \in 1..(i - 1) : s[j] # "_"
         IN  <<SubSeq(s, 1, k - 1)>> \o Split(SubSeq(s, k + 1, Len(s)))

\* a reviewer presses the accept or the reject button of notification m
handle_admin_decision(r, m, decision, net) ==
    /\ Dispatchable
    /\ m \in DOMAIN channel
    /\ channel[m].buttons
    /\ LET callback_data == IF decision = "accept" THEN channel[m].accept
                            ELSE channel[m].reject
           parts == Split(callback_data)
           user_id == IntOfStr(parts[2][1])
           team_id == parts[3]
           team_name == TeamsGet(team_id)
           text == IF parts[1] = <<"accept">> THEN "ACCEPTED" ELSE "REJECTED"
       IN  /\ outbox' = IF net = "ok"
                        THEN <<TeamMsg(user_id, text, team_name, TRUE)>>
                        ELSE <<TeamMsg(user_id, text, team_name, FALSE),
                               Msg(ADMIN_GROUP_ID, "DECISION_ERROR", net = "error")>>
           /\ channel' = IF net = "ok"
                         THEN [channel EXCEPT ![m].audit = Append(@, text),
                                              ![m].buttons = FALSE]
                         ELSE channel
           /\ event' = Event("handle_admin_decision", r, m)
    /\ UNCHANGED <<now, storeVars, formVars, concurrent_updates, broadcasts,
                   admin_message_to_user, active_conversations>>

\* handle_end_conversation that notifies the applicant and leaves the session active
handle_end_conversation_StillActive(r, u, net) ==
    /\ Dispatchable
    /\ outbox' = RelaySends(u, "CONVERSATION_ENDED", ADMIN_GROUP_ID,
                            "END_RECORDED", "END_ERROR", net)
    /\ event' = Event("handle_end_conversation", r, u)
    /\ UNCHANGED <<now, storeVars, formVars, concurrent_updates, broadcasts, relayVars>>

\* a reviewer presses an end-of-conversation button carrying "end_chat_<u>"
handle_end_conversation(r, u, net) ==
    /\ Dispatchable
    /\ LET parts == Split(<<"end", "_", "chat", "_", StrOfInt(u)>>)
           user_id == IntOfStr(parts[3][1])
       IN  /\ active_conversations' =
                  IF user_id \in DOMAIN active_conversations
                  THEN [active_conversations EXCEPT ![user_id].active = FALSE]
                  ELSE active_conversations
           /\ outbox' = RelaySends(user_id, "CONVERSATION_ENDED", ADMIN_GROUP_ID,
                                   "END_RECORDED", "END_ERROR", net)
           /\ event' = Event("handle_end_conversation", r, user_id)
    /\ UNCHANGED <<now, storeVars, formVars, concurrent_updates, broadcasts,
                   admin_message_to_user, channel>>

----------------------------------------------------------------------------
(* handlers.py: the reviewers' commands                                    *)

ASKING_BROADCAST_MESSAGE == 10

\* where an update comes from, as <<chat id, user id>>: reviewer 7 in the
\* admin group, applicant 1 and reviewer 7 in their private chats with the bot
Origins == {<<ADMIN_GROUP_ID, 7>>, <<1, 1>>, <<7, 7>>}

\* broadcast_conversation's state for the key (chat, user)
SetBroadcast(chat, user, state) ==
    IF state = ConversationEND
    THEN [k \in DOMAIN broadcasts \ {<<chat, user>>} |-> broadcasts[k]]
    ELSE [k \in DOMAIN broadcasts \cup {<<chat, user>>} |->
             IF k = <<chat, user>> THEN state ELSE broadcasts[k]]

stats_command(chat, user, net) ==
    /\ Dispatchable
    /\ outbox' = IF chat # ADMIN_GROUP_ID
                 THEN Sends(chat, "NO_STATS_PERMISSION", net)
                 ELSE IF get_statistics.total_applications = 0
                      THEN Sends(chat, "NO_APPLICATIONS_YET", net)
                      ELSE Sends(chat, "STATISTICS", net)
    /\ event' = Event("stats_command", user, [chat |-> chat])
    /\ UNCHANGED <<now, storeVars, formVars, concurrent_updates, broadcasts, relayVars>>

\* /broadcast, the entry point of broadcast_conversation (allow_reentry off)
broadcast_command(chat, user, net) ==
    /\ Dispatchable
    /\ <<chat, user>> \notin DOMAIN broadcasts
    /\ outbox' = Sends(chat, IF chat # ADMIN_GROUP_ID THEN "ADMIN_ONLY"
                             ELSE "BROADCAST_PROMPT", net)
    /\ broadcasts' = SetBroadcast(chat, user,
           NextState(ConversationEND,
                     IF chat # ADMIN_GROUP_ID THEN ConversationEND
                     ELSE ASKING_BROADCAST_MESSAGE, net))
    /\ event' = Event("broadcast_command", user, [chat |-> chat])
    /\ UNCHANGED <<now, storeVars, formVars, concurrent_updates, relayVars>>

\* the smallest element first
RECURSIVE Ascending(_)
Ascending(S) ==
    IF S = {} THEN <<>>
    ELSE LET least == CHOOSE x \in S : \A y \in S : x <= y
         IN  <<least>> \o Ascending(S \ {least})

\* [int(user_id) for user_id in self.users.keys()], listed by user id
get_all_users == Ascending({IntOfStr(k) : k \in DOMAIN users})

\* the fan-out loop that gives up at the first failed delivery
RECURSIVE FanOut_StopsAtFailure(_, _, _, _)
FanOut_StopsAtFailure(all_users, i, reachable, done) ==
    IF i > Len(all_users) THEN done
    ELSE IF all_users[i] \in reachable
         THEN FanOut_StopsAtFailure(all_users, i + 1, reachable,
                  [done EXCEPT !.sent_count = @ + 1,
                               !.sends = Append(@, Msg(all_users[i], "BROADCAST", TRUE))])
         ELSE [done EXCEPT !.failed_count = @ + 1,
                           !.sends = Append(@, Msg(all_users[i], "BROADCAST", FALSE))]

\* the fan-out loop of handle_broadcast_message over all_users[i..]; the
\* send to a user outside reachable raises
RECURSIVE FanOut(_, _, _, _)
FanOut(all_users, i, reachable, done) ==
    IF i > Len(all_users) THEN done
    ELSE IF all_users[i] \in reachable
         THEN FanOut(all_users, i + 1, reachable,
                  [done EXCEPT !.sent_count = @ + 1,
                               !.sends = Append(@, Msg(all_users[i], "BROADCAST", TRUE))])
         ELSE FanOut(all_users, i + 1, reachable,
                  [done EXCEPT !.failed_count = @ + 1,
                               !.sends = Append(@, Msg(all_users[i], "BROADCAST", FALSE))])

\* a text of the reviewer who was asked for the broadcast message
handle_broadcast_message(chat, user, text, reachable, net) ==
    LET all_users == get_all_users
        done == FanOut(all_users, 1, reachable,
                       [sent_count |-> 0, failed_count |-> 0, sends |-> <<>>])
        short == TextLen(Strip(text)) < 5
    IN  /\ Dispatchable
        /\ <<chat, user>> \in DOMAIN broadcasts
        /\ broadcasts[<<chat, user>>] = ASKING_BROADCAST_MESSAGE
        /\ outbox' = IF short THEN Sends(chat, "BROADCAST_TOO_SHORT", net)
                     ELSE IF all_users = <<>> THEN Sends(chat, "NO_USERS", net)
                     ELSE done.sends \o Sends(chat, "BROADCAST_SENT", net)
        /\ broadcasts' = SetBroadcast(chat, user,
               NextState(ASKING_BROADCAST_MESSAGE,
                         IF short THEN ASKING_BROADCAST_MESSAGE ELSE ConversationEND,
                         net))
        /\ event' = Event("handle_broadcast_message", user,
               [chat |-> chat, all_users |-> all_users,
                fanned_out |-> ~short /\ all_users # <<>>,
                sent_count |-> done.sent_count, failed_count |-> done.failed_count])
        /\ UNCHANGED <<now, storeVars, formVars, concurrent_updates, relayVars>>

\* /clear; copied tells whether the backup copies of clear_applications were
\* made, written whether its two writes returned True
clear_applications_command(chat, user, copied, written, net) ==
    /\ Dispatchable
    /\ IF chat # ADMIN_GROUP_ID
       THEN /\ outbox' = Sends(chat, "ADMIN_ONLY", net)
            /\ UNCHANGED <<applications, users>>
       ELSE IF ~copied
            THEN /\ outbox' = Sends(chat, "CLEAR_FAILED", net)
                 /\ UNCHANGED <<applications, users>>
            ELSE /\ applications' = <<>>
                 /\ users' = <<>>
                 /\ outbox' = Sends(chat, IF written THEN "CLEARED" ELSE "CLEAR_FAILED",
                                    net)
    /\ event' = Event("clear_applications_command", user, [chat |-> chat])
    /\ UNCHANGED <<now, banned_users, files, formVars, concurrent_updates, broadcasts,
                   relayVars>>

\* handle_admin_decision that takes the button press from any chat
AdminDecisionFrom_AnyChat(chat, r, m, decision, net) ==
    handle_admin_decision(r, m, decision, net)

\* the accept or reject button pressed on a message in the given chat
AdminDecisionFrom(chat, r, m, decision, net) ==
    IF chat = ADMIN_GROUP_ID THEN handle_admin_decision(r, m, decision, net)
    ELSE /\ Dispatchable
         /\ outbox' = <<>>
         /\ event' = Event("handle_admin_decision", r, [chat |-> chat])
         /\ UNCHANGED <<now, storeVars, formVars, concurrent_updates, broadcasts,
                        relayVars>>

\* the end-of-conversation button pressed on a message in the given chat
EndConversationFrom(chat, r, u, net) ==
    IF chat = ADMIN_GROUP_ID THEN handle_end_conversation(r, u, net)
    ELSE /\ Dispatchable
         /\ outbox' = <<>>
         /\ event' = Event("handle_end_conversation", r, [chat |-> chat])
         /\ UNCHANGED <<now, storeVars, formVars, concurrent_updates, broadcasts,
                        relayVars>>

----------------------------------------------------------------------------
(* data_manager.py driven through its interface                            *)

\* application_data['timestamp'] is the caller's datetime.now().isoformat(),
\* naive local time: it can step back, so a later save can carry an earlier
\* timestamp than a stored one
StoreTimes == {0, TickHours}

\* an unknown application id
NO_SUCH_ID == <<"none">>

StoreApplication(u, team_id, timestamp) ==
    [keys |-> BuildKeys \cup {"whatsapp_number", "timestamp"},
     id |-> <<>>,
     user_info |-> [user_id |-> u, username |-> ""],
     selected_team |-> team_id,
     team_name |-> TeamsGet(team_id),
     gender |-> "male",
     reason |-> Letters(10),
     experience |-> Letters(5),
     whatsapp_number |-> NoText,
     timestamp |-> timestamp]

SaveApplication(u, team_id, timestamp) ==
    /\ Len(applications) < MaxApps
    /\ save_application(StoreApplication(u, team_id, timestamp))
    /\ event' = Event("save_application", u, team_id)
    /\ outbox' = <<>>
    /\ UNCHANGED <<now, banned_users, files, formVars, concurrent_updates, broadcasts, relayVars>>

DeleteApplication(application_id) ==
    /\ delete_application(application_id)
    /\ event' = Event("delete_application", 0, application_id)
    /\ outbox' = <<>>
    /\ UNCHANGED <<now, banned_users, files, formVars, concurrent_updates, broadcasts, relayVars>>

\* a call of has_user_applied and its return value
HasUserApplied(u, team_id) ==
    /\ event' = Event("has_user_applied", u,
                      [team |-> team_id, result |-> has_user_applied(u, team_id)])
    /\ outbox' = <<>>
    /\ UNCHANGED <<now, storeVars, formVars, concurrent_updates, broadcasts, relayVars>>

\* a call of get_statistics and its return value
GetStatistics ==
    /\ event' = Event("get_statistics", 0, get_statistics)
    /\ outbox' = <<>>
    /\ UNCHANGED <<now, storeVars, formVars, concurrent_updates, broadcasts, relayVars>>

\* a call of can_user_reapply and its return value
CanUserReapply(u, team_id) ==
    /\ event' = Event("can_user_reapply", u,
                      [team |-> team_id, result |-> can_user_reapply(u, team_id)])
    /\ outbox' = <<>>
    /\ UNCHANGED <<now, storeVars, formVars, concurrent_updates, broadcasts, relayVars>>

\* ban_user that appends the id without looking for it in the list
BanUserCall_Appends(u, written) ==
    /\ banned_users' = Append(banned_users, StrOfInt(u))
    /\ event' = Event("ban_user", u, [banned |-> is_user_banned(u), result |-> written])
    /\ outbox' = <<>>
    /\ UNCHANGED <<now, applications, users, files, formVars, concurrent_updates,
                   broadcasts, relayVars>>

\* a call of ban_user, with whether the id was on the list and the return
\* value; written tells whether the write of the ban list returned True
BanUserCall(u, written) ==
    /\ IF is_user_banned(u) THEN UNCHANGED banned_users ELSE ban_user(u)
    /\ event' = Event("ban_user", u, [banned |-> is_user_banned(u),
                                       result |-> ~is_user_banned(u) /\ written])
    /\ outbox' = <<>>
    /\ UNCHANGED <<now, applications, users, files, formVars, concurrent_updates,
                   broadcasts, relayVars>>

\* a call of unban_user and its return value
UnbanUserCall(u, written) ==
    /\ IF is_user_banned(u) THEN unban_user(u) ELSE UNCHANGED banned_users
    /\ event' = Event("unban_user", u, [banned |-> is_user_banned(u),
                                         result |-> is_user_banned(u) /\ written])
    /\ outbox' = <<>>
    /\ UNCHANGED <<now, applications, users, files, formVars, concurrent_updates,
                   broadcasts, relayVars>>

----------------------------------------------------------------------------
(* data_manager.py and its files                                           *)

\* the application a caller hands over: whole, or lacking its 'reason'
CallerApplication(u, team_id, whole) ==
    IF whole THEN StoreApplication(u, team_id, now)
    ELSE [StoreApplication(u, team_id, now) EXCEPT !.keys = @ \ {"reason"}]

\* a call of save_application and its return value
SaveApplicationToFiles(u, team_id, whole, out1, out2) ==
    LET app_data == CallerApplication(u, team_id, whole)
        valid == validate_application(app_data.keys)
    IN  /\ Len(applications) < MaxApps
        /\ save_application(app_data)
        /\ IF valid THEN SaveBoth(out1, out2) ELSE UNCHANGED files
        /\ event' = Event("save_application", u,
               [team |-> team_id, whole |-> whole,
                result |-> save_application_result(app_data,
                                                   SaveBothResult(out1, out2))])
        /\ outbox' = <<>>
        /\ UNCHANGED <<now, banned_users, formVars, concurrent_updates, broadcasts, relayVars>>

\* a call of delete_application and its return value
DeleteApplicationFromFiles(application_id, out1, out2) ==
    LET found == \E i \in DOMAIN applications : applications[i].id = application_id
    IN  /\ delete_application(application_id)
        /\ IF found THEN SaveBoth(out1, out2) ELSE UNCHANGED files
        /\ event' = Event("delete_application", 0,
               [id |-> application_id,
                result |-> delete_application_result(application_id,
                                                     SaveBothResult(out1, out2))])
        /\ outbox' = <<>>
        /\ UNCHANGED <<now, banned_users, formVars, concurrent_updates, broadcasts, relayVars>>

\* clear_applications that empties the applications and keeps the user index
ClearApplications_KeepsUsers(copied, out1, out2) ==
    /\ IF copied
       THEN /\ applications' = <<>>
            /\ UNCHANGED users
            /\ SaveBoth(out1, out2)
       ELSE UNCHANGED <<applications, users, files>>
    /\ event' = Event("clear_applications", 0,
                      [held |-> Len(applications),
                       result |-> copied /\ SaveBothResult(out1, out2)])
    /\ outbox' = <<>>
    /\ UNCHANGED <<now, banned_users, formVars, concurrent_updates, broadcasts, relayVars>>

\* a call of clear_applications and its return value; copied tells whether the
\* backup directory and the copies were made (an exception there returns False
\* before anything is cleared), out1 and out2 how the two writes end
ClearApplications(copied, out1, out2) ==
    /\ IF copied
       THEN /\ applications' = <<>>
            /\ users' = <<>>
            /\ SaveBoth(out1, out2)
       ELSE UNCHANGED <<applications, users, files>>
    /\ event' = Event("clear_applications", 0,
                      [held |-> Len(applications),
                       result |-> copied /\ SaveBothResult(out1, out2)])
    /\ outbox' = <<>>
    /\ UNCHANGED <<now, banned_users, formVars, concurrent_updates, broadcasts, relayVars>>

\* _load_json(filename, default_value): the document of a whole file, the
\* default when there is no file or json.load raises
load_json(file, default_value) ==
    IF file.primary.state = "complete" THEN file.primary.data ELSE default_value

\* _validate_user_data that asks for first_seen only
validate_user_data_FirstSeen(user) == "first_seen" \in DOMAIN user

\* _validate_user_data
validate_user_data(user) ==
    {"first_name", "first_seen", "applications"} \subseteq DOMAIN user

\* DataManager(): the collections are loaded and _ensure_data_integrity drops
\* the records that fail validation, saving a collection again when its
\* length changed; saves lists the files _save_json was called for
DataManagerInit(out1, out2) ==
    LET loaded_applications == load_json(files[APPLICATIONS_FILE], <<>>)
        loaded_users == load_json(files[USERS_FILE], <<>>)
        valid_applications ==
            SelectSeq(loaded_applications, LAMBDA app : validate_application(app.keys))
        valid_users ==
            [k \in {j \in DOMAIN loaded_users : validate_user_data(loaded_users[j])}
                |-> loaded_users[k]]
        fix_applications == Len(valid_applications) # Len(loaded_applications)
        fix_users == Cardinality(DOMAIN valid_users) # Cardinality(DOMAIN loaded_users)
    IN  /\ event.handler = "start"
        /\ applications' = valid_applications
        /\ users' = valid_users
        /\ files' = [files EXCEPT
               ![APPLICATIONS_FILE] =
                   IF fix_applications THEN save_json(@, valid_applications, out1) ELSE @,
               ![USERS_FILE] =
                   IF fix_users THEN save_json(@, valid_users, out2) ELSE @]
        /\ event' = Event("DataManager", 0,
               [saves |-> {f \in {APPLICATIONS_FILE} : fix_applications}
                          \cup {f \in {USERS_FILE} : fix_users}])
        /\ outbox' = <<>>
        /\ UNCHANGED <<now, banned_users, formVars, concurrent_updates, broadcasts, relayVars>>

\* the process ends and what it held in memory is gone; the files stay
ProcessExit ==
    /\ applications' = <<>>
    /\ users' = <<>>
    /\ user_data' = [u \in Applicants |-> EmptyUserData]
    /\ conversations' = [u \in Applicants |-> ConversationEND]
    /\ tasks' = <<>>
    /\ broadcasts' = <<>>
    /\ admin_message_to_user' = <<>>
    /\ active_conversations' = <<>>
    /\ channel' = <<>>
    /\ event' = Event("start", 0, <<>>)
    /\ outbox' = <<>>
    /\ UNCHANGED <<now, banned_users, files, concurrent_updates>>

----------------------------------------------------------------------------
(* Specifications                                                          *)

InitState(concurrent) ==
    /\ now = 0
    /\ applications = <<>>
    /\ users = <<>>
    /\ banned_users = <<>>
    /\ files = [f \in {APPLICATIONS_FILE, USERS_FILE} |->
                    [primary |-> Absent, backup |-> Absent]]
    /\ user_data = [u \in Applicants |-> EmptyUserData]
    /\ conversations = [u \in Applicants |-> ConversationEND]
    /\ tasks = <<>>
    /\ concurrent_updates = concurrent
    /\ broadcasts = <<>>
    /\ admin_message_to_user = <<>>
    /\ active_conversations = <<>>
    /\ channel = <<>>
    /\ event = Event("start", 0, <<>>)
    /\ outbox = <<>>

\* Application.builder() (main.py:122) leaves concurrent_updates off
Init == InitState(FALSE)

\* the same application built with concurrent_updates on
InitConc == InitState(TRUE)

Usernames == {"", "handle"}
Texts == {Letters(4), PhoneEG}

\* the conversation engine over the applicants A, the team buttons T, the
\* handles N, the gender buttons G, the texts X, the transport outcomes D and
\* the outcomes W of the store's writes
FormNext(A, T, N, G, X, D, W) ==
    \/ \E u \in A, t \in T, n \in N, net \in D : team_selection_callback(u, t, n, net)
    \/ \E u \in A, g \in G, net \in D : handle_gender_selection(u, g, net)
    \/ \E u \in A, x \in X, net \in D : handle_reason_input(u, x, net)
    \/ \E u \in A, x \in X, n \in N, net \in D, w \in W :
           handle_experience_input(u, x, n, net, w)
    \/ \E u \in A, x \in X, net \in D, w \in W : handle_whatsapp_input(u, x, net, w)
    \/ \E i \in 1..MaxTasks, sent \in BOOLEAN : send_admin_notification(i, sent)
    \/ \E i \in 1..MaxTasks, net \in D : complete_application_reply(i, net)
    \/ \E u \in A, net \in D : cancel_command(u, net)

Next ==
    \/ FormNext({1}, {team_exams}, Usernames, {"male"}, Texts, Net, BOOLEAN)
    \/ \E u \in {1} : BanUser(u)
    \/ \E u \in {1} : UnbanUser(u)
    \/ Tick

Spec == Init /\ [][Next]_vars

\* the conversation engine when updates are handled concurrently
ConcNext ==
    \/ FormNext({1}, {team_exams}, Usernames, {"male"}, {PhoneEG}, {"ok", "error"}, {TRUE})
    \/ Tick

SpecConc == InitConc /\ [][ConcNext]_vars

\* the relay and the router around a form that every transport call and every
\* write serves
RelayNet == {"ok", "error"}

\* the video and audio handlers repeat the photo handlers' code path; the photo
\* handlers take every input, the video and audio handlers a saved file
RelayNext ==
    \/ \E u \in Applicants : team_selection_callback(u, team_exams, "", "ok")
    \/ team_selection_callback(1, team_support, "", "ok")
    \/ \E u \in Applicants : handle_gender_selection(u, "male", "ok")
    \/ \E u \in Applicants : handle_reason_input(u, PhoneEG, "ok")
    \/ \E u \in Applicants : handle_experience_input(u, PhoneEG, "", "ok", TRUE)
    \/ \E u \in Applicants : handle_whatsapp_input(u, PhoneEG, "ok", TRUE)
    \/ \E i \in 1..MaxTasks, sent \in BOOLEAN : send_admin_notification(i, sent)
    \/ \E i \in 1..MaxTasks : complete_application_reply(i, "ok")
    \/ \E m \in 0..MaxMsgs, net \in RelayNet : handle_admin_reply(7, m, net)
    \/ \E m \in 0..MaxMsgs, saved \in BOOLEAN : handle_admin_photo(7, m, saved, "ok")
    \/ \E m \in 1..MaxMsgs : handle_admin_video(7, m, TRUE, "ok")
    \/ \E m \in 1..MaxMsgs : handle_admin_audio(7, m, TRUE, TRUE, "ok")
    \/ \E u \in Applicants, net \in RelayNet : handle_unknown_message(u, net)
    \/ \E u \in Applicants, saved \in BOOLEAN, net \in RelayNet : handle_user_photo(u, saved, net)
    \/ handle_user_video(1, TRUE, "ok")
    \/ handle_user_audio(2, TRUE, TRUE, "ok")
    \/ \E u \in Applicants, net \in RelayNet : handle_end_conversation(7, u, net)

RelaySpec == Init /\ [][RelayNext]_vars

\* the router: publication of completed applications and the reviewers'
\* decisions on them
RouterNext ==
    \/ \E t \in {team_exams, team_support}, n \in Usernames :
           team_selection_callback(1, t, n, "ok")
    \/ handle_gender_selection(1, "male", "ok")
    \/ handle_reason_input(1, PhoneEG, "ok")
    \/ \E n \in Usernames : handle_experience_input(1, PhoneEG, n, "ok", TRUE)
    \/ handle_whatsapp_input(1, PhoneEG, "ok", TRUE)
    \/ \E i \in 1..MaxTasks, sent \in BOOLEAN : send_admin_notification(i, sent)
    \/ \E i \in 1..MaxTasks : complete_application_reply(i, "ok")
    \/ \E r \in Reviewers, m \in 1..MaxMsgs, d \in {"accept", "reject"}, net \in Net :
           handle_admin_decision(r, m, d, net)

RouterSpec == Init /\ [][RouterNext]_vars

\* the form's validation: answers at the edges of the length ranges, an
\* answer padded with spaces, a contact number and a text that is none
Padded9 == Chars(<<" ", "1", "2", "3", "4", "5", "6", "7", "8", "9", " ">>)
Short6 == Chars(<<"1", "2", "3", "4", "5", "6">>)
FormTexts == {Letters(4), Letters(5), Letters(9), Letters(10), Letters(1000),
              Letters(1001), Padded9, Short6, PhoneEG}

ValidationNext ==
    \/ FormNext({1}, {team_exams}, Usernames, {"male"}, FormTexts, {"ok", "error"}, {TRUE})
    \/ \E net \in {"ok", "error"} : handle_unknown_message(1, net)

ValidationSpec == Init /\ [][ValidationNext]_vars

\* the contact numbers tried: the documented examples and numbers around the
\* two patterns (country code, prefix, length, separators, a foreign character)
Plus20 == Chars(<<"+", "2", "0", "1", "0", "1", "2", "3", "4", "5", "6", "7", "8">>)
Plus966 == Chars(<<"+", "9", "6", "6", "5", "1", "2", "3", "4", "5", "6", "7", "8">>)
Local05 == Chars(<<"0", "5", "1", "2", "3", "4", "5", "6", "7", "8">>)
Plus20Nines == Chars(<<"+", "2", "0", "9", "9", "9", "9", "9", "9", "9", "9", "9">>)
OtherNumbers ==
    {Chars(<<"2", "0", "1", "0", "1", "2", "3", "4", "5", "6", "7", "8">>),
     Chars(<<"+", "0", "1", "0", "1", "2", "3", "4", "5", "6", "7", "8">>),
     Chars(<<"0", "1", "1", "1", "2", "3", "4", "5", "6", "7", "8">>),
     Chars(<<"0", "1", "2", "1", "2", "3", "4", "5", "6", "7", "8">>),
     Chars(<<"0", "1", "5", "1", "2", "3", "4", "5", "6", "7", "8">>),
     Chars(<<"0", "1", "3", "1", "2", "3", "4", "5", "6", "7", "8">>),
     Chars(<<"0", "1", "0", "1", "2", "3", "4", "5", "6", "7">>),
     Chars(<<"0", "1", "0", "1", "2", "3", "4", "5", "6", "7", "8", "9">>),
     Chars(<<"+", "2", "0", " ", "1", "0", "1", " ", "2", "3", "4", "-", "5", "6", "7", "8">>),
     Chars(<<"(", "0", "1", "0", ")", " ", "1", "2", "3", "4", "-", "5", "6", "7", "8">>),
     Chars(<<" ", "0", "1", "0", "1", "2", "3", "4", "5", "6", "7", "8", " ">>),
     Chars(<<"9", "6", "6", "5", "1", "2", "3", "4", "5", "6", "7", "8">>),
     Chars(<<"+", "9", "6", "6", "4", "1", "2", "3", "4", "5", "6", "7", "8">>),
     Chars(<<"0", "5", "1", "2", "3", "4", "5", "6", "7">>),
     Chars(<<"0", "5", "1", "2", "3", "4", "5", "6", "7", "8", "9">>),
     Chars(<<"+", "0", "5", "1", "2", "3", "4", "5", "6", "7", "8">>),
     Chars(<<"0", "1", "0", "1", "2", "3", "4", "5", "6", "7", "a">>),
     Chars(<<"0", "0", "2", "0", "1", "0", "1", "2", "3", "4", "5", "6", "7", "8">>),
     Chars(<<"+", "2", "0", "0", "1", "0", "1", "2", "3", "4", "5", "6", "7", "8">>),
     Chars(<<"+", "9", "6", "6", "0", "5", "1", "2", "3", "4", "5", "6", "7", "8">>),
     Chars(<<"0", "5", "9", "1", "2", "3", "4", "5", "6", "7">>),
     Chars(<<"+", "2", "0", " ", "1", "5", " ", "1", "2", "3", "4", " ", "5", "6", "7", "8">>)}
PhoneInputs == {Plus20, PhoneEG, Plus966, Local05, Short6, Plus20Nines, NoText,
                Letters(11)} \cup OtherNumbers

\* the contact-number step of the form over these numbers
ValidatorNext ==
    \/ team_selection_callback(1, team_exams, "", "ok")
    \/ handle_gender_selection(1, "male", "ok")
    \/ handle_reason_input(1, PhoneEG, "ok")
    \/ handle_experience_input(1, PhoneEG, "", "ok", TRUE)
    \/ \E x \in PhoneInputs : handle_whatsapp_input(1, x, "ok", TRUE)
    \/ \E i \in 1..MaxTasks, sent \in BOOLEAN : send_admin_notification(i, sent)
    \/ \E i \in 1..MaxTasks : complete_application_reply(i, "ok")

ValidatorSpec == Init /\ [][ValidatorNext]_vars

\* the store under any sequence of calls of its interface
StoreTeams == {team_exams, team_support}

StoreNext ==
    \/ \E u \in Applicants, t \in StoreTeams, ts \in StoreTimes : SaveApplication(u, t, ts)
    \/ \E i \in DOMAIN applications : DeleteApplication(applications[i].id)
    \/ DeleteApplication(NO_SUCH_ID)
    \/ \E u \in Applicants, t \in StoreTeams : HasUserApplied(u, t)
    \/ \E u \in Applicants, t \in StoreTeams : CanUserReapply(u, t)
    \/ GetStatistics
    \/ Tick

StoreSpec == Init /\ [][StoreNext]_vars

\* the store and its files under any sequence of saves, each write ending in
\* any of the ways a write can end, and deletes of an unknown id.  The
\* applications saved are two teams of one applicant and one of another; the
\* second write is tried only after the first succeeded.
DiskNext ==
    \/ \E a \in {<<1, team_exams>>, <<1, team_support>>, <<2, team_exams>>},
          w \in {<<"ok", "ok">>, <<"ok", "open_fails">>, <<"ok", "dump_fails">>,
                 <<"open_fails", "ok">>, <<"dump_fails", "ok">>} :
           SaveApplicationToFiles(a[1], a[2], TRUE, w[1], w[2])
    \/ \E a \in {<<1, team_exams>>, <<1, team_support>>, <<2, team_exams>>} :
           SaveApplicationToFiles(a[1], a[2], FALSE, "ok", "ok")
    \/ DeleteApplicationFromFiles(NO_SUCH_ID, "ok", "ok")

DiskSpec == Init /\ [][DiskNext]_vars

\* the records found on disk when the process starts: whole ones, and ones
\* lacking a field that validation asks for
DiskRecord(u, team_id) ==
    [StoreApplication(u, team_id, 0) EXCEPT
        !.id = <<StrOfInt(u), "_">> \o team_id \o <<"_", "0">>,
        !.keys = @ \cup {"id"}]

DiskRecords ==
    {DiskRecord(1, team_exams), DiskRecord(2, team_support),
     [DiskRecord(1, team_support) EXCEPT !.keys = @ \ {"reason"}],
     [DiskRecord(2, team_exams) EXCEPT !.keys = @ \ {"timestamp", "user_info"}]}

DiskUsers(k) ==
    IF k = "1"
    THEN {NewUser(DiskRecord(1, team_exams)),
          [username |-> "", first_seen |-> 0, applications |-> <<>>]}
    ELSE {NewUser(DiskRecord(2, team_support)),
          [first_name |-> "", first_seen |-> 0, total_applications |-> 0]}

\* the applications file and the users file a starting process can find
ApplicationsOnDisk ==
    {Absent, Partial} \cup
    {Complete(q) : q \in {<<>>} \cup {<<a>> : a \in DiskRecords}
                          \cup {<<a, b>> : a \in DiskRecords, b \in DiskRecords}}

UsersOnDisk ==
    {Absent} \cup
    {Complete([k \in D |-> IF k = "1" THEN a ELSE b]) :
         a \in DiskUsers("1"), b \in DiskUsers("2"), D \in SUBSET {"1", "2"}}

\* the process starts on any of these files
LoadInit ==
    /\ now = 0
    /\ applications = <<>>
    /\ users = <<>>
    /\ banned_users = <<>>
    /\ files \in {[f \in {APPLICATIONS_FILE, USERS_FILE} |->
                     [primary |-> IF f = APPLICATIONS_FILE THEN a ELSE b,
                      backup |-> Absent]] :
                  a \in ApplicationsOnDisk, b \in UsersOnDisk}
    /\ user_data = [u \in Applicants |-> EmptyUserData]
    /\ conversations = [u \in Applicants |-> ConversationEND]
    /\ tasks = <<>>
    /\ concurrent_updates = FALSE
    /\ broadcasts = <<>>
    /\ admin_message_to_user = <<>>
    /\ active_conversations = <<>>
    /\ channel = <<>>
    /\ event = Event("start", 0, <<>>)
    /\ outbox = <<>>

LoadNext == \E out1 \in WriteOutcomes, out2 \in WriteOutcomes : DataManagerInit(out1, out2)

LoadSpec == LoadInit /\ [][LoadNext]_vars

\* the reviewers' commands and buttons, from the admin group and from other
\* chats, around an applicant who completes the form and a reviewer who replies
AdminNext ==
    \/ team_selection_callback(1, team_exams, "", "ok")
    \/ handle_gender_selection(1, "male", "ok")
    \/ handle_reason_input(1, PhoneEG, "ok")
    \/ handle_experience_input(1, PhoneEG, "", "ok", TRUE)
    \/ handle_whatsapp_input(1, PhoneEG, "ok", TRUE)
    \/ \E i \in 1..MaxTasks : send_admin_notification(i, TRUE)
    \/ \E i \in 1..MaxTasks : complete_application_reply(i, "ok")
    \/ \E m \in 1..MaxMsgs : handle_admin_reply(7, m, "ok")
    \/ \E o \in Origins, net \in RelayNet : stats_command(o[1], o[2], net)
    \/ \E o \in Origins, net \in RelayNet : broadcast_command(o[1], o[2], net)
    \/ \E o \in Origins, x \in {Letters(4), Letters(5)}, reachable \in SUBSET {1} :
           handle_broadcast_message(o[1], o[2], x, reachable, "ok")
    \/ \E o \in Origins, copied \in BOOLEAN, written \in BOOLEAN :
           clear_applications_command(o[1], o[2], copied, written, "ok")
    \/ \E o \in Origins, m \in 1..MaxMsgs, d \in {"accept", "reject"} :
           AdminDecisionFrom(o[1], o[2], m, d, "ok")
    \/ \E o \in Origins : EndConversationFrom(o[1], o[2], 1, "ok")

\* the broadcast to the users of any store, some of whom cannot be reached
BroadcastNext ==
    \/ \E u \in Applicants : SaveApplication(u, team_exams, 0)
    \/ \E o \in Origins, net \in Net : broadcast_command(o[1], o[2], net)
    \/ \E o \in Origins, x \in {Letters(4), Letters(5)}, reachable \in SUBSET Applicants,
          net \in Net :
           handle_broadcast_message(o[1], o[2], x, reachable, net)

BroadcastSpec == Init /\ [][BroadcastNext]_vars

AdminSpec == Init /\ [][AdminNext]_vars

\* two applicants without a handle filling the form at the same time, their
\* updates dispatched one after the other in any order
FrameNext ==
    FormNext(Applicants, {team_exams}, {""}, {"male"}, {PhoneEG}, {"ok", "down"}, {TRUE})

FrameSpec == Init /\ [][FrameNext]_vars

\* the form entered from a team button and from callback data that matches the
\* entry pattern "^team_" (main.py:133) and is no key of TEAMS
team_other == <<"team", "_", "other">>

EntryNext ==
    FormNext({1}, {team_exams, team_other}, Usernames, {"male"}, {PhoneEG}, {"ok"}, {TRUE})

EntrySpec == Init /\ [][EntryNext]_vars

\* the store cleared and the ban list edited around saved applications
KeeperNext ==
    \/ \E u \in Applicants : SaveApplication(u, team_exams, 0)
    \/ \E copied \in BOOLEAN, out2 \in {"ok", "dump_fails"} :
           ClearApplications(copied, "ok", out2)
    \/ \E u \in Applicants, written \in BOOLEAN : BanUserCall(u, written)
    \/ \E u \in Applicants, written \in BOOLEAN : UnbanUserCall(u, written)

KeeperSpec == Init /\ [][KeeperNext]_vars

\* the store over restarts of the process: the DataManager is constructed
\* first and again after every exit; in between applications are saved with
\* both writes done or the second one failing, deleted and cleared
RestartNext ==
    \/ \E out1 \in WriteOutcomes, out2 \in WriteOutcomes : DataManagerInit(out1, out2)
    \/ \E u \in Applicants, out2 \in {"ok", "open_fails"} :
           event.handler # "start" /\ SaveApplicationToFiles(u, team_exams, TRUE, "ok", out2)
    \/ \E i \in DOMAIN applications :
           event.handler # "start" /\ DeleteApplicationFromFiles(applications[i].id, "ok", "ok")
    \/ event.handler # "start" /\ ClearApplications(TRUE, "ok", "ok")
    \/ event.handler # "start" /\ ProcessExit

RestartSpec == Init /\ [][RestartNext]_vars

----------------------------------------------------------------------------
(* Claims                                                                  *)

TextStates == {ASKING_REASON, ASKING_EXPERIENCE, ASKING_WHATSAPP}

UserMediaHandlers == {"handle_user_photo", "handle_user_video", "handle_user_audio"}
AdminMediaHandlers == {"handle_admin_photo", "handle_admin_video", "handle_admin_audio"}
FormTextHandlers == {"handle_reason_input", "handle_experience_input",
                     "handle_whatsapp_input"}

\* the step posted message m in the admin group
Posted(m) == m \in DOMAIN channel' /\ m \notin DOMAIN channel

\* the step tried to send something to the admin group
SentToGroup == \E k \in DOMAIN outbox' : outbox'[k].to = ADMIN_GROUP_ID

\* the step forwarded a message of applicant u: it was posted in the admin
\* group and its id mapped to u
ForwardedFrom(u) ==
    /\ Len(channel') = Len(channel) + 1
    /\ channel'[Len(channel')].kind = "relay"
    /\ channel'[Len(channel')].user = u
    /\ Len(channel') \in DOMAIN admin_message_to_user'
    /\ admin_message_to_user'[Len(channel')] = u

\* C1: any two stored applications of the same applicant to the same team
\* have creation timestamps at least 24 hours apart.
C1_CooldownBetweenStored ==
    \A i, j \in DOMAIN applications :
        (/\ i < j
         /\ applications[i].user_info.user_id = applications[j].user_info.user_id
         /\ applications[i].selected_team = applications[j].selected_team)
        => applications[j].timestamp - applications[i].timestamp >= COOLDOWN_HOURS

C3_NoForwardWithoutActiveSession ==
    [][/\ \A u \in Applicants :
              (/\ ~IsActive(u)
               /\ event'.user = u
               /\ event'.handler \in UserMediaHandlers \cup {"handle_unknown_message"})
              => (~SentToGroup /\ channel' = channel
                  /\ admin_message_to_user' = admin_message_to_user)
       /\ \A m \in DOMAIN channel' :
              (Posted(m) /\ channel'[m].kind = "relay") => IsActive(channel'[m].user)
      ]_vars

C3_Witness ==
    /\ event.handler = "handle_user_photo"
    /\ event.user \in DOMAIN active_conversations
    /\ ~active_conversations[event.user].active
    /\ outbox = <<>>
    /\ channel # <<>>

\* C4: the end-session action leaves the applicant's session not active; a
\* session that is not active becomes active only by a reviewer's text reply
\* to a tracked message of that applicant; and until then a free text of the
\* applicant outside the form is answered with UNKNOWN_MESSAGE and nothing is
\* forwarded.
C4_EndedSessionStaysClosed ==
    [][/\ event'.handler = "handle_end_conversation"
              => ~(event'.arg \in DOMAIN active_conversations'
                   /\ active_conversations'[event'.arg].active)
       /\ \A u \in Applicants :
              (~IsActive(u) /\ u \in DOMAIN active_conversations'
               /\ active_conversations'[u].active)
              => (/\ event'.handler = "handle_admin_reply"
                  /\ Tracked(event'.arg)
                  /\ admin_message_to_user[event'.arg] = u)
       /\ \A u \in Applicants :
              (/\ ~IsActive(u)
               /\ event'.handler = "handle_unknown_message"
               /\ event'.user = u)
              => (/\ outbox'[1].to = u
                  /\ outbox'[1].text = "UNKNOWN_MESSAGE"
                  /\ ~SentToGroup
                  /\ channel' = channel
                  /\ admin_message_to_user' = admin_message_to_user)
      ]_vars

C4_Witness ==
    /\ event.handler = "handle_unknown_message"
    /\ event.user \in DOMAIN active_conversations
    /\ ~active_conversations[event.user].active
    /\ outbox # <<>>
    /\ outbox[1].text = "UNKNOWN_MESSAGE"

\* C5: a reviewer's reply, text or media, to a tracked message leaves the
\* mapped applicant with an active relay session held by that reviewer.
C5_ReplyEstablishesSession ==
    [][(/\ event'.handler \in AdminMediaHandlers \cup {"handle_admin_reply"}
        /\ Tracked(event'.arg))
       => LET u == admin_message_to_user[event'.arg]
          IN  /\ u \in DOMAIN active_conversations'
              /\ active_conversations'[u].active
              /\ active_conversations'[u].admin_id = event'.user
      ]_vars

C7_AuditEditAlways ==
    [][event'.handler = "handle_admin_decision"
       => Len(channel'[event'.arg].audit) = Len(channel[event'.arg].audit) + 1
      ]_vars

\* C8: the decision message names the display name of the team the
\* notification was published for, not the placeholder.
C8_DecisionNamesTeam ==
    [][event'.handler = "handle_admin_decision"
       => (/\ outbox'[1].team_name = channel[event'.arg].team_name
           /\ outbox'[1].team_name # UNKNOWN_TEAM)
      ]_vars

\* C9: a team selection of a banned applicant creates no session field and
\* does not enter GenderAsked, and no application of a banned applicant is
\* stored.
C9_BannedRejectedAtEntry ==
    [][/\ (event'.handler = "team_selection_callback" /\ is_user_banned(event'.user))
          => (/\ user_data'[event'.user] = user_data[event'.user]
              /\ conversations'[event'.user] # ASKING_GENDER)
       /\ Len(applications') > Len(applications)
          => ~is_user_banned(applications'[Len(applications')].user_info.user_id)
      ]_vars

\* C10: a cancel command erases the collected fields, leaves the form (the
\* next free text is not taken as a form answer) and sends the cancellation
\* notice.
C10_CancelLeavesForm ==
    [][event'.handler = "cancel_command"
       => (/\ user_data'[event'.user] = EmptyUserData
           /\ conversations'[event'.user] \notin TextStates
           /\ outbox'[1].text = "CANCEL_MESSAGE")
      ]_vars

\* C11: a notification is posted only by a completion whose application was
\* saved (it is in the store) and whose confirmation is still ahead; the
\* confirmation is sent only by a completion past its publish step; and when
\* the completion has finished (the conversation has ended) the applicant's
\* session holds no collected field.
C11_CompletionOrder ==
    [][/\ \A m \in DOMAIN channel' :
              (Posted(m) /\ channel'[m].kind = "notification")
              => \E i \in DOMAIN tasks :
                     /\ tasks[i].pc = "notify" /\ tasks[i].saved
                     /\ tasks'[i].pc = "confirm"
                     /\ tasks[i].user = channel'[m].user
                     /\ \E k \in DOMAIN applications :
                            /\ applications[k].user_info = tasks[i].app.user_info
                            /\ applications[k].selected_team = tasks[i].app.selected_team
                            /\ applications[k].timestamp = tasks[i].app.timestamp
                     /\ user_data'[tasks[i].user] = user_data[tasks[i].user]
       /\ (\E k \in DOMAIN outbox' : outbox'[k].text = "APPLICATION_SUBMITTED")
              => (event'.handler = "complete_application" /\ event'.arg = "confirm")
       /\ (/\ event'.handler = "complete_application"
           /\ conversations'[event'.user] = ConversationEND)
              => user_data'[event'.user] = EmptyUserData
      ]_vars

\* C12: the step that ends a completion whose save failed sends the
\* submission-failed message to the applicant and nothing to the admin group,
\* posts no notification, clears the session fields and ends the
\* conversation.
C12_SaveFailureClearsSession ==
    [][(event'.handler = "complete_application" /\ event'.arg = "failed")
       => (/\ outbox'[1].to = event'.user
           /\ outbox'[1].text = "SAVE_FAILED"
           /\ ~SentToGroup
           /\ channel' = channel
           /\ user_data'[event'.user] = EmptyUserData
           /\ conversations'[event'.user] = ConversationEND)
      ]_vars

\* the handled text is not a valid answer in the applicant's state
InvalidInput ==
    \/ /\ event'.handler = "handle_reason_input"
       /\ TextLen(Strip(event'.arg)) \notin 10..1000
    \/ /\ event'.handler = "handle_experience_input"
       /\ TextLen(Strip(event'.arg.text)) \notin 5..1000
    \/ /\ event'.handler = "handle_whatsapp_input"
       /\ ~validate_whatsapp_number(Strip(event'.arg))
    \/ /\ event'.handler = "handle_unknown_message"
       /\ conversations[event'.user] = ASKING_GENDER

ReasonAccepted ==
    /\ "reason" \in user_data'[event'.user].keys
    /\ user_data'[event'.user].reason = Strip(event'.arg)
    /\ outbox'[1].text = "EXPERIENCE_QUESTION"

IsDigits(s, n) == Len(s) = n /\ \A i \in DOMAIN s : s[i] \in Digits

StartsWith(s, lead) == Len(s) >= Len(lead) /\ SubSeq(s, 1, Len(lead)) = lead

After(s, lead) == SubSeq(s, Len(lead) + 1, Len(s))

\* optional +, 20 or a leading 0, then 10/11/12/15, then 8 digits
EgyptianForm(s) ==
    \E lead \in {<<"+", "2", "0">>, <<"2", "0">>, <<"0">>},
       prefix \in {<<"1", "0">>, <<"1", "1">>, <<"1", "2">>, <<"1", "5">>} :
        /\ StartsWith(s, lead \o prefix)
        /\ IsDigits(After(s, lead \o prefix), 8)

\* optional +, 966 or a leading 0, then 5 and one digit, then 7 digits
SaudiForm(s) ==
    \E lead \in {<<"+", "9", "6", "6">>, <<"9", "6", "6">>, <<"0">>} :
        /\ StartsWith(s, lead \o <<"5">>)
        /\ IsDigits(After(s, lead \o <<"5">>), 8)

Unseparated(s) == SelectSeq(s, LAMBDA c : c \notin {" ", "-", "(", ")"})

\* the step took the handled text as the contact number: it is in the session
\* and in the application the started completion carries
NumberAccepted ==
    /\ Len(tasks') = Len(tasks) + 1
    /\ "whatsapp_number" \in user_data'[event'.user].keys
    /\ user_data'[event'.user].whatsapp_number = Strip(event'.arg)
    /\ tasks'[Len(tasks')].app.whatsapp_number = Strip(event'.arg)

\* C16: a text handled in WhatsappAsked is accepted exactly when, its spaces,
\* hyphens and parentheses removed, it is an Egyptian or a Saudi mobile form;
\* +201012345678, 01012345678, +966512345678 and 0512345678 are accepted,
\* 123456, +20999999999 and the empty text are rejected.
C16_ValidatorForms ==
    [][event'.handler = "handle_whatsapp_input"
       => LET number == Unseparated(event'.arg.chars)
          IN  /\ NumberAccepted <=> (/\ event'.arg.letters = 0
                                     /\ EgyptianForm(number) \/ SaudiForm(number))
              /\ event'.arg \in {Plus20, PhoneEG, Plus966, Local05} => NumberAccepted
              /\ event'.arg \in {Short6, Plus20Nines, NoText} => ~NumberAccepted
      ]_vars

C16_Witness ==
    /\ event.handler = "handle_whatsapp_input"
    /\ event.arg = Plus966
    /\ tasks # <<>>
    /\ tasks[Len(tasks)].app.whatsapp_number = Plus966
    /\ applications # <<>>

\* the stored applications of applicant A to team T
Matching(A, T) ==
    {i \in DOMAIN applications :
        /\ applications[i].user_info.user_id = A
        /\ applications[i].selected_team = T}

\* C17: in every store state, for every applicant A and team T,
\* has_user_applied(A, T) is true exactly when at least one stored
\* application has applicant id A and team id T, and a call returns that.
C17_HasAppliedIffStored ==
    /\ \A A \in Applicants, T \in DOMAIN TEAMS :
           has_user_applied(A, T) <=> Cardinality(Matching(A, T)) >= 1
    /\ event.handler = "has_user_applied"
           => event.arg.result = (Cardinality(Matching(event.user, event.arg.team)) >= 1)

C17_Witness ==
    /\ event.handler = "has_user_applied"
    /\ event.arg.result
    /\ Cardinality(Matching(event.user, event.arg.team)) = 2

\* C18 as stated: for every stored application, of applicant A to team T with
\* timestamp t, can_user_reapply(A, T) is false while now is in [t, t+24h)
\* and true once now is at or after t+24h.
C18_Original ==
    \A i \in DOMAIN applications :
        LET t == applications[i].timestamp
            A == applications[i].user_info.user_id
            T == applications[i].selected_team
        IN  now >= t => (can_user_reapply(A, T) <=> now >= t + COOLDOWN_HOURS)

\* C18 amended: for the stored application of applicant A to team T that has
\* the greatest timestamp t among the stored applications of A to T,
\* can_user_reapply(A, T) is false while now is in [t, t+24h) and true once
\* now is at or after t+24h, and a call returns that.
C18_CooldownOfLatest ==
    \A i \in DOMAIN applications :
        LET t == applications[i].timestamp
            A == applications[i].user_info.user_id
            T == applications[i].selected_team
        IN  (/\ \A j \in Matching(A, T) : applications[j].timestamp <= t
             /\ now >= t)
            => /\ can_user_reapply(A, T) <=> now >= t + COOLDOWN_HOURS
               /\ (/\ event.handler = "can_user_reapply"
                   /\ event.user = A /\ event.arg.team = T)
                  => (event.arg.result <=> now >= t + COOLDOWN_HOURS)

C18_Witness ==
    /\ event.handler = "can_user_reapply"
    /\ event.arg.result
    /\ Cardinality(Matching(event.user, event.arg.team)) = 2
    /\ \A j \in Matching(event.user, event.arg.team) :
           now >= applications[j].timestamp + COOLDOWN_HOURS

\* the greatest timestamp among the stored applications with indices in S
MaxTimestamp(S) ==
    CHOOSE t \in {applications[i].timestamp : i \in S} :
        \A j \in S : applications[j].timestamp <= t

\* what can_user_reapply(A, T) is to return
ReapplyExpected(A, T) ==
    IF Matching(A, T) = {} THEN TRUE
    ELSE now >= MaxTimestamp(Matching(A, T)) + COOLDOWN_HOURS

\* C19: in every store state, in whatever order the applications are stored,
\* can_user_reapply(A, T) is true when no stored application matches (A, T)
\* and otherwise equals now >= t_latest + 24h, t_latest the greatest
\* timestamp among the stored applications matching (A, T); a call returns
\* that.
C19_ReapplyByLatest ==
    /\ \A A \in Applicants, T \in DOMAIN TEAMS :
           can_user_reapply(A, T) = ReapplyExpected(A, T)
    /\ event.handler = "can_user_reapply"
           => event.arg.result = ReapplyExpected(event.user, event.arg.team)

C19_Witness ==
    /\ event.handler = "can_user_reapply"
    /\ ~event.arg.result
    /\ \E i, j \in Matching(event.user, event.arg.team) :
           /\ i < j
           /\ applications[i].timestamp > applications[j].timestamp
           /\ now >= applications[j].timestamp + COOLDOWN_HOURS

\* C20: after any sequence of save_application and delete_application calls,
\* every user record's total_applications equals the length of its list of
\* application summaries.
C20_TotalMatchesSummaries ==
    \A k \in DOMAIN users :
        users[k].total_applications = Len(users[k].applications)

C20_Witness ==
    /\ event.handler = "delete_application"
    /\ event.arg # NO_SUCH_ID
    /\ \A i \in DOMAIN applications : applications[i].id # event.arg
    /\ event.arg[1] \in DOMAIN users
    /\ users[event.arg[1]].total_applications = 1
    /\ Len(users[event.arg[1]].applications) = 1

\* C21: after any sequence of save_application calls no two stored
\* applications have the same id, two applications of one applicant to one
\* team saved within the same clock second included.
C21_IdsUnique ==
    \A i, j \in DOMAIN applications :
        i # j => applications[i].id # applications[j].id

\* what a file of the store is written from
Collection(f) == IF f = APPLICATIONS_FILE THEN applications ELSE users

StoreFiles == {APPLICATIONS_FILE, USERS_FILE}

\* C22: after every _save_json call that returns, the primary file holds the
\* complete new content (the call returned True) or exactly the content it
\* held before the call (the call returned False); it is never left partially
\* written and never holds older content.
C22_WriteIsAllOrNothing ==
    [][event'.handler \in {"save_application", "delete_application"} =>
          /\ \A f \in StoreFiles :
                 \/ files'[f].primary = Complete(Collection(f)')
                 \/ files'[f].primary = files[f].primary
          /\ event'.arg.result =>
                 \A f \in StoreFiles : files'[f].primary = Complete(Collection(f)')]_vars

\* C23: save_application returns True only if the applications file and the
\* users file were both written; an application that lacks a required field
\* and a write that fails make it return False.
C23_TrueOnlyIfBothWritten ==
    [][event'.handler = "save_application" =>
          /\ event'.arg.result =>
                 /\ event'.arg.whole
                 /\ \A f \in StoreFiles : files'[f].primary = Complete(Collection(f)')
          /\ ~event'.arg.whole =>
                 /\ ~event'.arg.result
                 /\ UNCHANGED <<applications, users, files>>
          /\ (\E f \in StoreFiles : files'[f].primary # Complete(Collection(f)')) =>
                 ~event'.arg.result]_vars

C23_Witness ==
    /\ event.handler = "save_application"
    /\ event.arg.whole
    /\ ~event.arg.result
    /\ files[APPLICATIONS_FILE].primary = Complete(applications)
    /\ files[USERS_FILE].primary # Complete(users)
    /\ Len(applications) = 2

\* C24: a save_application call that returns success adds exactly one record
\* to the applications and exactly one summary to the applicant's user record
\* and removes none, so the total of get_statistics grows by one; two
\* applications of one applicant to two different teams are both retained,
\* with a total of 2.
C24_SuccessAddsOne ==
    [][event'.handler = "save_application" /\ event'.arg.result =>
          LET u == event'.user
              k == StrOfInt(u)
              old == IF k \in DOMAIN users THEN users[k].applications ELSE <<>>
              n == Len(applications)
          IN  /\ Len(applications') = n + 1
              /\ SubSeq(applications', 1, n) = applications
              /\ applications'[n + 1].user_info.user_id = u
              /\ applications'[n + 1].selected_team = event'.arg.team
              /\ DOMAIN users' = DOMAIN users \cup {k}
              /\ \A j \in DOMAIN users \ {k} : users'[j] = users[j]
              /\ Len(users'[k].applications) = Len(old) + 1
              /\ SubSeq(users'[k].applications, 1, Len(old)) = old
              /\ users'[k].applications[Len(old) + 1].id = applications'[n + 1].id
              /\ get_statistics'.total_applications
                     = get_statistics.total_applications + 1
              /\ (/\ n = 1
                  /\ applications[1].user_info.user_id = u
                  /\ applications[1].selected_team # event'.arg.team
                  /\ Len(old) = 1) =>
                     /\ applications'[1] = applications[1]
                     /\ applications'[2].selected_team = event'.arg.team
                     /\ Len(applications') = 2
                     /\ get_statistics'.total_applications = 2
                     /\ users'[k].total_applications = 2]_vars

C24_Witness ==
    /\ event.handler = "save_application"
    /\ event.arg.result
    /\ Len(applications) = 2
    /\ applications[1].user_info.user_id = applications[2].user_info.user_id
    /\ applications[1].selected_team # applications[2].selected_team
    /\ users[StrOfInt(event.user)].total_applications = 2
    /\ get_statistics.total_applications = 2

\* C25: delete_application of an id that matches no stored application
\* returns False and leaves the applications, the user index and both files
\* as they were.
C25_DeleteUnknownChangesNothing ==
    [][(/\ event'.handler = "delete_application"
        /\ \A i \in DOMAIN applications : applications[i].id # event'.arg.id) =>
          /\ ~event'.arg.result
          /\ UNCHANGED <<applications, users, files>>]_vars

C25_Witness ==
    /\ event.handler = "delete_application"
    /\ event.arg.id = NO_SUCH_ID
    /\ ~event.arg.result
    /\ Len(applications) = 2
    /\ files[APPLICATIONS_FILE].primary = Complete(applications)
    /\ files[APPLICATIONS_FILE].backup.state = "complete"
    /\ files[USERS_FILE].primary = Complete(users)

\* C26: delete_application of an id that matches a stored application removes
\* every record of that id from the applications and every summary of that id
\* from every user's list, leaves the other records and summaries as they
\* were and in order, and recomputes every user's total_applications.
C26_DeleteRemovesEveryMatch ==
    [][(/\ event'.handler = "delete_application"
        /\ \E i \in DOMAIN applications : applications[i].id = event'.arg) =>
          /\ applications' = SelectSeq(applications, LAMBDA app : app.id # event'.arg)
          /\ \A i \in DOMAIN applications' : applications'[i].id # event'.arg
          /\ DOMAIN users' = DOMAIN users
          /\ \A k \in DOMAIN users :
                 /\ users'[k].applications =
                        SelectSeq(users[k].applications, LAMBDA sm : sm.id # event'.arg)
                 /\ users'[k].total_applications = Len(users'[k].applications)
                 /\ users'[k].first_seen = users[k].first_seen
                 /\ users'[k].last_active = users[k].last_active
                 /\ users'[k].username = users[k].username]_vars

C26_Witness ==
    /\ event.handler = "delete_application"
    /\ event.arg # NO_SUCH_ID
    /\ Len(applications) = 1
    /\ applications[1].id # event.arg
    /\ applications[1].user_info.user_id = 2
    /\ event.arg[1] = "1"
    /\ users["1"].applications = <<>>
    /\ Len(users["2"].applications) = 1

\* the records of a file that have every required field
WellFormedApplications(file) ==
    SelectSeq(load_json(file, <<>>), LAMBDA app : RequiredFields \subseteq app.keys)

WellFormedUsers(file) ==
    {k \in DOMAIN load_json(file, <<>>) :
        \A field \in {"first_name", "first_seen", "applications"} :
            field \in DOMAIN load_json(file, <<>>)[k]}

\* C27: loading collections in which some application or user records lack a
\* required field retains exactly the records that have all required fields,
\* and saves a collection again if and only if at least one of its records was
\* dropped.
C27_LoadKeepsWellFormed ==
    [][event'.handler = "DataManager" =>
          LET on_disk == load_json(files[USERS_FILE], <<>>)
          IN  /\ applications' = WellFormedApplications(files[APPLICATIONS_FILE])
              /\ DOMAIN users' = WellFormedUsers(files[USERS_FILE])
              /\ \A k \in DOMAIN users' : users'[k] = on_disk[k]
              /\ APPLICATIONS_FILE \in event'.arg.saves
                     <=> Len(applications') < Len(load_json(files[APPLICATIONS_FILE], <<>>))
              /\ USERS_FILE \in event'.arg.saves
                     <=> DOMAIN users' # DOMAIN on_disk]_vars

\* one whole and one malformed application on disk: one is retained and the
\* applications are saved once
C27_Witness ==
    /\ event.handler = "DataManager"
    /\ Len(applications) = 1
    /\ files[APPLICATIONS_FILE].backup.state = "complete"
    /\ Len(files[APPLICATIONS_FILE].backup.data) = 2
    /\ files[APPLICATIONS_FILE].primary = Complete(applications)
    /\ event.arg.saves = {APPLICATIONS_FILE}

\* sum(counts.values())
RECURSIVE SumOfValues(_)
SumOfValues(counts) ==
    IF DOMAIN counts = {} THEN 0
    ELSE LET t == CHOOSE x \in DOMAIN counts : TRUE
         IN  counts[t] + SumOfValues([x \in DOMAIN counts \ {t} |-> counts[x]])

\* C28: for every non-empty set of stored applications the total_applications
\* of get_statistics equals the sum of the values of its team_counts.
C28_TotalIsSumOfTeamCounts ==
    (event.handler = "get_statistics" /\ applications # <<>>) =>
        event.arg.total_applications = SumOfValues(event.arg.team_counts)

C28_Witness ==
    /\ event.handler = "get_statistics"
    /\ Len(applications) = 2
    /\ event.arg.total_applications = 2
    /\ DOMAIN event.arg.team_counts = {team_support}
    /\ event.arg.team_counts[team_support] = 2

\* the gated commands; their events name the chat of the update
GatedCommands == {"stats_command", "broadcast_command", "handle_broadcast_message",
                  "clear_applications_command"}

\* a press of a gated button on a message in the given chat
GatedPress(chat, user) ==
    \/ /\ event'.handler = "handle_admin_decision"
       /\ \E m \in 1..MaxMsgs, d \in {"accept", "reject"}, net \in RelayNet :
              AdminDecisionFrom(chat, user, m, d, net)
    \/ /\ event'.handler = "handle_end_conversation"
       /\ \E u \in Applicants, net \in RelayNet : EndConversationFrom(chat, user, u, net)

\* what the bot tells the sender of a refused update
Refusals == {"NO_STATS_PERMISSION", "ADMIN_ONLY", "ERROR_MESSAGE"}

\* nothing but a refusal sent to the chat of the update
Refused(chat) ==
    /\ UNCHANGED <<applications, users, banned_users, broadcasts,
                   active_conversations, admin_message_to_user, channel>>
    /\ \A i \in DOMAIN outbox' :
           outbox'[i].to = chat /\ outbox'[i].text \in Refusals

\* C29: statistics, broadcast, clear, the accept/reject decision and the end
\* of a session take effect only on an update from the chat whose id is
\* ADMIN_GROUP_ID: an update from any other chat never clears the store, sends
\* a broadcast, delivers a decision to an applicant or changes a relay session.
C29_OnlyFromReviewChannel ==
    [][/\ (event'.handler \in GatedCommands /\ event'.arg.chat # ADMIN_GROUP_ID) =>
              Refused(event'.arg.chat)
       /\ \A o \in Origins :
              (o[1] # ADMIN_GROUP_ID /\ GatedPress(o[1], o[2])) => Refused(o[1])
       /\ (\E i \in DOMAIN outbox' : outbox'[i].text = "BROADCAST") =>
              /\ event'.handler = "handle_broadcast_message"
              /\ event'.arg.chat = ADMIN_GROUP_ID
       /\ (applications # <<>> /\ applications' = <<>>) =>
              /\ event'.handler = "clear_applications_command"
              /\ event'.arg.chat = ADMIN_GROUP_ID]_vars

\* reviewer 7 sent /clear in the private chat while the store held an
\* application and a relay session was open
C29_Witness ==
    /\ event.handler = "clear_applications_command"
    /\ event.arg.chat = 7
    /\ outbox = <<Msg(7, "ADMIN_ONLY", TRUE)>>
    /\ applications # <<>>
    /\ IsActive(1)

\* C30: a broadcast attempts the delivery to every user id of the user index
\* exactly once, one after the other; a failed delivery is counted and does
\* not prevent the deliveries to the remaining users; the fan-out ends with
\* sent_count + failed_count equal to the number of users.
C30_BroadcastReachesEveryUser ==
    [][(event'.handler = "handle_broadcast_message" /\ event'.arg.fanned_out) =>
          LET n == Cardinality(DOMAIN users)
              attempts == {i \in DOMAIN outbox' : outbox'[i].text = "BROADCAST"}
          IN  /\ attempts = 1..n
              /\ \A k \in DOMAIN users :
                     Cardinality({i \in attempts : outbox'[i].to = IntOfStr(k)}) = 1
              /\ event'.arg.sent_count = Cardinality({i \in attempts : outbox'[i].ok})
              /\ event'.arg.failed_count = Cardinality({i \in attempts : ~outbox'[i].ok})
              /\ event'.arg.sent_count + event'.arg.failed_count = n]_vars

\* the delivery to the first user failed and the second user was served
C30_Witness ==
    /\ event.handler = "handle_broadcast_message"
    /\ event.arg.fanned_out
    /\ Len(event.arg.all_users) = 2
    /\ ~outbox[1].ok
    /\ outbox[2].ok
    /\ event.arg.sent_count = 1
    /\ event.arg.failed_count = 1

\* the handlers of the conversation engine
FormEvents ==
    {"team_selection_callback", "handle_gender_selection", "handle_reason_input",
     "handle_experience_input", "handle_whatsapp_input", "send_admin_notification",
     "complete_application", "cancel_command"}

\* C31: an event of one applicant in the conversation engine leaves the
\* conversation state and the session fields of every other applicant as they
\* were, whatever the interleaving of the applicants' events
C31_OtherApplicantUntouched ==
    [][\A b \in Applicants :
           event'.handler \in FormEvents /\ event'.user # b
               => /\ conversations'[b] = conversations[b]
                  /\ user_data'[b] = user_data[b]]_vars

\* applicant 1 answers the reason question while applicant 2 is in the middle
\* of the form with a team and a gender collected
C31_Witness ==
    /\ event.handler = "handle_reason_input"
    /\ event.user = 1
    /\ conversations[1] = ASKING_EXPERIENCE
    /\ conversations[2] = ASKING_REASON
    /\ {"selected_team", "gender"} \subseteq user_data[2].keys

\* C32: every stored application names a team of the team table, a team
\* selection with any other team id creating no session and leaving the
\* conversation where it was
C32_StoredTeamEnumerated ==
    /\ \A i \in DOMAIN applications : applications[i].selected_team \in DOMAIN TEAMS
    /\ \A u \in DOMAIN user_data :
           "selected_team" \in user_data[u].keys
               => user_data[u].selected_team \in DOMAIN TEAMS

\* C33: a reply of a reviewer whose delivery to the applicant fails does not
\* leave the applicant's relay session active: an applicant without an active
\* session before the failed reply has none after it
C33_FailedReplyLeavesNoSession ==
    [][\A m \in DOMAIN admin_message_to_user :
           LET user_id == admin_message_to_user[m]
           IN  /\ event'.handler = "handle_admin_reply"
               /\ event'.arg = m
               /\ outbox' # <<>>
               /\ ~outbox'[1].ok
               /\ ~IsActive(user_id)
               => ~(/\ user_id \in DOMAIN active_conversations'
                    /\ active_conversations'[user_id].active)]_vars

\* C34: publishing a notification adds exactly one entry to the message map,
\* from the id of the sent notification to the applicant of the application,
\* when the send to the admin group succeeds, and adds none when it fails
C34_PublishMapsTheNotification ==
    [][event'.handler = "send_admin_notification"
           => IF outbox'[1].ok
              THEN /\ Len(channel') = Len(channel) + 1
                   /\ ~Tracked(Len(channel'))
                   /\ DOMAIN admin_message_to_user' =
                          DOMAIN admin_message_to_user \cup {Len(channel')}
                   /\ admin_message_to_user'[Len(channel')] = channel'[Len(channel')].user
                   /\ channel'[Len(channel')].user = event'.user
                   /\ \A m \in DOMAIN admin_message_to_user :
                          admin_message_to_user'[m] = admin_message_to_user[m]
              ELSE admin_message_to_user' = admin_message_to_user]_vars

\* the notification of a second application was published and mapped after
\* the send of the first application's notification had failed
C34_Witness ==
    /\ event.handler = "send_admin_notification"
    /\ outbox[1].ok
    /\ Len(applications) = 2
    /\ DOMAIN admin_message_to_user = {1}

\* C35: after clear_applications returned True the applications and the user
\* index are empty, so that has_user_applied is false and can_user_reapply is
\* true for every applicant and team, and the ban list is as it was
C35_ClearEmptiesTheStore ==
    [][event'.handler = "clear_applications" /\ event'.arg.result
           => /\ applications' = <<>>
              /\ users' = <<>>
              /\ \A u \in Applicants, t \in DOMAIN TEAMS :
                     (~has_user_applied(u, t) /\ can_user_reapply(u, t))'
              /\ banned_users' = banned_users]_vars

\* clear_applications has returned True on a store that held two applications
\* inside the cooldown, with an applicant on the ban list
C35_Witness ==
    /\ event.handler = "clear_applications"
    /\ event.arg.result
    /\ event.arg.held = 2
    /\ applications = <<>>
    /\ banned_users # <<>>

\* C36: ban_user(u) leaves u banned and unban_user(u) leaves u not banned;
\* banning a banned id or unbanning an id that is not banned changes nothing
\* and returns False; the ban list never holds an id twice; neither call
\* changes the applications or the user index
C36_BanAndUnban ==
    [][/\ \A u \in Applicants :
              /\ event'.handler = "ban_user" /\ event'.user = u
                     => /\ is_user_banned(u)'
                        /\ is_user_banned(u)
                               => banned_users' = banned_users /\ ~event'.arg.result
              /\ event'.handler = "unban_user" /\ event'.user = u
                     => /\ ~is_user_banned(u)'
                        /\ ~is_user_banned(u)
                               => banned_users' = banned_users /\ ~event'.arg.result
       /\ event'.handler \in {"ban_user", "unban_user"}
              => /\ applications' = applications
                 /\ users' = users
                 /\ \A i, j \in DOMAIN banned_users' :
                        banned_users'[i] = banned_users'[j] => i = j]_vars

\* a banned applicant was banned again, with a second applicant on the list
\* and an application in the store
C36_Witness ==
    /\ event.handler = "ban_user"
    /\ event.arg.banned
    /\ ~event.arg.result
    /\ Len(banned_users) = 2
    /\ applications # <<>>

\* C37: a save_application call that returns False because a write failed
\* leaves the applications and the user index in memory as they were, so that
\* has_user_applied and can_user_reapply answer as before the call
C37_FailedSaveChangesNothing ==
    [][event'.handler = "save_application" /\ event'.arg.whole /\ ~event'.arg.result
           => /\ applications' = applications
              /\ users' = users
              /\ \A u \in Applicants, t \in {team_exams, team_support} :
                     /\ has_user_applied(u, t)' = has_user_applied(u, t)
                     /\ can_user_reapply(u, t)' = can_user_reapply(u, t)]_vars

\* C38: in every state of the store, over saves, deletes, clears and restarts
\* with the integrity repair, and with writes that fail, the ids in the users'
\* lists of summaries are the ids of the stored applications, every summary
\* under the record of its application's applicant
C38_SummariesMatchApplications ==
    /\ \A i \in DOMAIN applications :
           LET k == StrOfInt(applications[i].user_info.user_id)
           IN  /\ k \in DOMAIN users
               /\ \E j \in DOMAIN users[k].applications :
                      users[k].applications[j].id = applications[i].id
    /\ \A k \in DOMAIN users :
           \A j \in DOMAIN users[k].applications :
               \E i \in DOMAIN applications :
                   /\ applications[i].id = users[k].applications[j].id
                   /\ StrOfInt(applications[i].user_info.user_id) = k

\* C39: a reviewer's reply to a tracked message goes to the applicant the map
\* records for that message and to no other applicant; an entry of the map is
\* never changed or removed, and it names the applicant the message concerns
C39_ReplyToRecordedApplicant ==
    [][/\ \A m \in DOMAIN admin_message_to_user :
              /\ m \in DOMAIN admin_message_to_user'
              /\ admin_message_to_user'[m] = admin_message_to_user[m]
              /\ admin_message_to_user[m] = channel[m].user
       /\ event'.handler \in {"handle_admin_reply"} \cup AdminMediaHandlers
              => \A k \in DOMAIN outbox' :
                     outbox'[k].to # ADMIN_GROUP_ID
                         => /\ Tracked(event'.arg)
                            /\ outbox'[k].to = admin_message_to_user[event'.arg]
                            /\ outbox'[k].to = channel[event'.arg].user]_vars

\* a reviewer's reply to the first tracked message was delivered to its
\* applicant while the second tracked message belongs to the other applicant
C39_Witness ==
    /\ event.handler = "handle_admin_reply"
    /\ event.arg = 1
    /\ DOMAIN admin_message_to_user = {1, 2}
    /\ admin_message_to_user[1] # admin_message_to_user[2]
    /\ outbox # <<>>
    /\ outbox[1].to = admin_message_to_user[1]
    /\ outbox[1].ok

\* C40: every stored application whose user_info holds an empty handle carries
\* a contact number that passed the validator, also when the applicant's
\* handle changed between the team selection and the experience answer
C40_NoHandleHasNumber ==
    \A i \in DOMAIN applications :
        applications[i].user_info.username = ""
            => /\ applications[i].whatsapp_number # NoText
               /\ validate_whatsapp_number(applications[i].whatsapp_number)

====
